---------------------------- MODULE Spec2Model ----------------------------
(***************************************************************************)
(* Model of the sequence parameter and calibration engine of the Radboud   *)
(* FUS driving system software (fus_driving_systems/sequence.py and the    *)
(* equipment catalog of config/create_config.py), of the sequence          *)
(* validators (control_driving_system.py, igt/igt_ds.py) and of the pulse  *)
(* ramping of the IGT system (igt/igt_ds.py).                              *)
(*                                                                         *)
(* Python floats are modelled as decimal floating-point numbers <<m, x>>   *)
(* with value m * 10^x and a mantissa of at most five significant digits   *)
(* (TLC's integers are 32 bits wide).  Every arithmetic operation rounds   *)
(* its result to that precision, as a float operation rounds to 53 bits.   *)
(***************************************************************************)
EXTENDS Integers, Sequences, FiniteSets, TLC

(***************************************************************************)
(* Decimal floating point                                                  *)
(***************************************************************************)

\* first mantissa value that no longer fits the five digits kept
MantLimit == 10^5

Abs(n) == IF n < 0 THEN -n ELSE n

Sign(n) == IF n < 0 THEN -1 ELSE IF n = 0 THEN 0 ELSE 1

RECURSIVE Pow10(_)
Pow10(k) == IF k <= 0 THEN 1 ELSE 10 * Pow10(k - 1)

\* a / b rounded to the nearest integer (b > 0), halves away from zero
RDiv(a, b) == Sign(a) * ((2 * Abs(a) + b) \div (2 * b))

\* canonical form: at most five digits, no trailing zero, zero is <<0, 0>>
RECURSIVE Norm(_, _)
Norm(m, x) ==
    IF m = 0 THEN <<0, 0>>
    ELSE IF Abs(m) >= MantLimit THEN Norm(RDiv(m, 10), x + 1)
    ELSE IF m % 10 = 0 THEN Norm(m \div 10, x + 1)
    ELSE <<m, x>>

\* the number m * 10^x
D(m, x) == Norm(m, x)

Zero == <<0, 0>>

Neg(a) == <<-a[1], a[2]>>

RECURSIVE Digits(_)
Digits(n) == IF n < 10 THEN 1 ELSE 1 + Digits(n \div 10)

\* position of the leading digit: 10^(Order-1) <= |a| < 10^Order
Order(a) == a[2] + Digits(Abs(a[1]))

\* mantissa of a non-zero a scaled to exactly five digits
Mant5(a) == a[1] * Pow10(5 - Digits(Abs(a[1])))

\* a < b, exact
Less(a, b) ==
    IF Sign(a[1]) # Sign(b[1]) THEN Sign(a[1]) < Sign(b[1])
    ELSE IF a[1] = 0 THEN FALSE
    ELSE IF Order(a) # Order(b)
         THEN IF a[1] > 0 THEN Order(a) < Order(b) ELSE Order(a) > Order(b)
    ELSE Mant5(a) < Mant5(b)

Leq(a, b) == a = b \/ Less(a, b)

Greater(a, b) == Less(b, a)

Geq(a, b) == a = b \/ Less(b, a)

\* a + b, rounded
Add(a, b) ==
    IF a[1] = 0 THEN b
    ELSE IF b[1] = 0 THEN a
    ELSE LET hi == IF a[2] >= b[2] THEN a ELSE b
             lo == IF a[2] >= b[2] THEN b ELSE a
             gap == hi[2] - lo[2]
             room == 8 - Digits(Abs(hi[1]))
             up == IF gap > room THEN room ELSE gap
             down == gap - up
         IN  IF down > 9 THEN hi
             ELSE Norm(hi[1] * Pow10(up) + RDiv(lo[1], Pow10(down)), hi[2] - up)

Sub(a, b) == Add(a, Neg(b))

\* a * b, rounded
Mul(a, b) ==
    LET p == Abs(a[1])
        q == Abs(b[1])
        s == Sign(a[1]) * Sign(b[1])
    IN  IF q < 10^4 THEN Norm(s * p * q, a[2] + b[2])
        ELSE Norm(s * (p * (q \div 100) + RDiv(p * (q % 100), 100)), a[2] + b[2] + 2)

\* a / b, rounded (b non-zero)
Div(a, b) ==
    LET s == Sign(a[1]) * Sign(b[1])
        p == Abs(a[1])
        q == Abs(b[1])
        k == 9 - Digits(p)
        t == p * Pow10(k)
        q1 == t \div q
        r == t % q
    IN  IF a[1] = 0 THEN Zero
        ELSE IF q1 >= 10^6 THEN Norm(s * q1, a[2] - b[2] - k)
        ELSE Norm(s * (q1 * 100 + RDiv(r * 100, q)), a[2] - b[2] - k - 2)

\* x >= 0 rounded up to an integer
math_ceil(x) ==
    IF x[2] >= 0 THEN x[1] * Pow10(x[2])
    ELSE (x[1] + Pow10(-x[2]) - 1) \div Pow10(-x[2])

\* math.floor(x) and int(x) of a number x >= 0, as an integer
math_floor(x) == IF x[2] >= 0 THEN x[1] * Pow10(x[2]) ELSE x[1] \div Pow10(-x[2])

(***************************************************************************)
(* Configuration (config/create_config.py).  The model keeps four of the   *)
(* fifteen driving systems and two of the thirteen transducers: one Sonic  *)
(* Concepts pair, one IGT system without calibrated combination and the    *)
(* two calibrated combinations of transducer IS_PCD15287_01001.            *)
(* Coefficients are the configured values rounded to five digits.          *)
(***************************************************************************)

SONIC_CONCEPTS == "Sonic Concepts"

IGT == "IGT"

MAX_ALLOWED_PRESSURE == <<14, -1>>

POW_GP == "Global power [mW]"

POW_AMPL == "Amplitude [%]"

POW_PRESS == "Max. pressure in free water [MPa]"

POW_VOLT == "Voltage [V]"

RAMP_SHAPES == <<"Rectangular - no ramping", "Linear", "Tukey">>

TRIGGER_OPTIONS == <<"None", "TriggerSequence", "TriggerOnePulseTrainRepetition">>

FOC_WRT_EXIT == "Focus wrt exit plane [mm]"

FOC_WRT_BOWL == "Focus wrt mid bowl [mm]"

POWER_OPTIONS == <<POW_GP, POW_AMPL, POW_PRESS, POW_VOLT>>

FOCUS_OPTIONS == <<FOC_WRT_EXIT, FOC_WRT_BOWL>>

SC_DS == <<"203-035">>

IGT_DS == <<"IGT-128-ch", "IGT-128-ch_comb_2x10-ch", "IGT-32-ch_comb_2x10-ch">>

SC_TRANS == <<"CTX-250-009">>

IS_TRANS == <<"IS_PCD15287_01001">>

DrivingSystems == SC_DS \o IGT_DS

Transducers == SC_TRANS \o IS_TRANS

\* '~'.join([ds, tran]) is modelled as the pair <<ds, tran>>
DS_TRAN_COMBOS == {<<IGT_DS[2], IS_TRANS[1]>>, <<IGT_DS[3], IS_TRANS[1]>>}

IGT_128_ch == [v2a_a_coeff |-> <<61122, -4>>, v2a_b_coeff |-> <<-4917, -4>>]

IGT_32_ch == [v2a_a_coeff |-> <<61393, -4>>, v2a_b_coeff |-> <<-7172, -4>>]

IS_15287_1001 ==
    [p2a_a_coeff |-> <<82055, -9>>, p2a_b_coeff |-> <<-33912, -6>>,
     df2sf_a_coeff |-> <<10182, -4>>, df2sf_b_coeff |-> <<96394, -4>>,
     f2eqf1_foc_low_lim |-> <<719, -2>>, f2eqf1_foc_upper_lim |-> <<1874, -2>>,
     f2eqf1_coeff |-> <<<<-41566, -4>>, <<20851, -4>>, <<-29816, -5>>, <<19264, -6>>,
                        <<-58322, -8>>, <<67208, -10>>, Zero, Zero>>,
     f2eqf2_foc_low_lim |-> <<1874, -2>>, f2eqf2_foc_upper_lim |-> <<9601, -2>>,
     f2eqf2_coeff |-> <<<<46131, -5>>, <<62431, -7>>, <<44771, -9>>, <<-19292, -11>>,
                        Zero, Zero, Zero, Zero>>]

\* config['Equipment.Driving system.' + serial]['Manufacturer']
DsManufacturer(serial) == IF serial = SC_DS[1] THEN SONIC_CONCEPTS ELSE IGT

\* config['Equipment.Transducer.' + serial]
TranConfig(serial) ==
    IF serial = SC_TRANS[1]
    THEN [fund_freq |-> <<25, 1>>, exit_plane_dist |-> Zero,
          min_foc |-> <<159, -1>>, max_foc |-> <<46, 0>>]
    ELSE [fund_freq |-> <<3, 2>>, exit_plane_dist |-> <<97, -1>>,
          min_foc |-> IS_15287_1001.f2eqf1_foc_low_lim,
          max_foc |-> IS_15287_1001.f2eqf2_foc_upper_lim]

\* the section config['Equipment.Combination.' + combo] written from the
\* parameters v of the driving system and t of the transducer
CombSection(v, t) ==
    [V2A_a |-> v.v2a_a_coeff, V2A_b |-> v.v2a_b_coeff,
     P2A_a |-> t.p2a_a_coeff, P2A_b |-> t.p2a_b_coeff,
     DF2SF_a |-> t.df2sf_a_coeff, DF2SF_b |-> t.df2sf_b_coeff,
     F2EQF1_low_lim |-> t.f2eqf1_foc_low_lim,
     F2EQF1_up_lim |-> t.f2eqf1_foc_upper_lim,
     F2EQF1_a |-> t.f2eqf1_coeff,
     F2EQF2_low_lim |-> t.f2eqf2_foc_low_lim,
     F2EQF2_up_lim |-> t.f2eqf2_foc_upper_lim,
     F2EQF2_a |-> t.f2eqf2_coeff]

\* config['Equipment.Combination.' + combo]; the dictionary of zeros of
\* Sequence.__init__ when no section has been loaded
CombConfig(combo) ==
    IF combo = <<IGT_DS[2], IS_TRANS[1]>> THEN CombSection(IGT_128_ch, IS_15287_1001)
    ELSE IF combo = <<IGT_DS[3], IS_TRANS[1]>> THEN CombSection(IGT_32_ch, IS_15287_1001)
    ELSE [V2A_a |-> <<0, 0>>, V2A_b |-> <<0, 0>>, P2A_a |-> <<0, 0>>, P2A_b |-> <<0, 0>>,
          DF2SF_a |-> <<0, 0>>, DF2SF_b |-> <<0, 0>>,
          F2EQF1_low_lim |-> <<0, 0>>, F2EQF1_up_lim |-> <<0, 0>>,
          F2EQF1_a |-> <<<<0, 0>>, <<0, 0>>, <<0, 0>>, <<0, 0>>,
                         <<0, 0>>, <<0, 0>>, <<0, 0>>, <<0, 0>>>>,
          F2EQF2_low_lim |-> <<0, 0>>, F2EQF2_up_lim |-> <<0, 0>>,
          F2EQF2_a |-> <<<<0, 0>>, <<0, 0>>, <<0, 0>>, <<0, 0>>,
                         <<0, 0>>, <<0, 0>>, <<0, 0>>, <<0, 0>>>>]

(***************************************************************************)
(* Equipment objects (fus_driving_systems/driving_system.py, transducer.py)*)
(***************************************************************************)

\* DrivingSystem.manufact after set_ds_info(serial)
manufact(s) == DsManufacturer(s.driving_sys)

\* Transducer attributes after set_transducer_info(serial)
transducer_info(s) == TranConfig(s.transducer)

(***************************************************************************)
(* Sequence (fus_driving_systems/sequence.py).  A call works on the record *)
(* of the object's fields extended with exc, the exception in flight:      *)
(* sys.exit() raises SystemExit and leaves the fields as they are at that  *)
(* point.                                                                  *)
(***************************************************************************)

NoExc == "none"

\* Python's None
None == <<>>

Raise(s, e) == [s EXCEPT !.exc = e]

\* the statements F executed after s, skipped when an exception is in flight
Then(s, F(_)) == IF s.exc # NoExc THEN s ELSE F(s)

\* self._conv_param, held as the configuration section it was loaded from
conv(s) == CombConfig(s.conv_param)

V2A_a(s) == conv(s).V2A_a

V2A_b(s) == conv(s).V2A_b

P2A_a(s) == conv(s).P2A_a

P2A_b(s) == conv(s).P2A_b

DF2SF_a(s) == conv(s).DF2SF_a

DF2SF_b(s) == conv(s).DF2SF_b

RECURSIVE math_pow(_, _)
math_pow(f, k) == IF k = 0 THEN <<1, 0>> ELSE IF k = 1 THEN f ELSE Mul(math_pow(f, k - 1), f)

\* a0 + a1*f + a2*f^2 + ... + a7*f^7, summed from the left
RECURSIVE PolySum(_, _, _)
PolySum(a, f, k) ==
    IF k = 0 THEN a[1]
    ELSE Add(PolySum(a, f, k - 1), Mul(a[k + 1], math_pow(f, k)))

Poly(a, f) == PolySum(a, f, 7)

\* interval 1 without its upper limit
InInterval1_open(s) ==
    /\ Geq(s.focus_wrt_exit_plane, conv(s).F2EQF1_low_lim)
    /\ Less(s.focus_wrt_exit_plane, conv(s).F2EQF1_up_lim)

InInterval1(s) ==
    /\ Geq(s.focus_wrt_exit_plane, conv(s).F2EQF1_low_lim)
    /\ Leq(s.focus_wrt_exit_plane, conv(s).F2EQF1_up_lim)

InInterval2(s) ==
    /\ Greater(s.focus_wrt_exit_plane, conv(s).F2EQF2_low_lim)
    /\ Leq(s.focus_wrt_exit_plane, conv(s).F2EQF2_up_lim)

\* the shared limit given to interval 2
_calc_eq_factor_boundary_to_interval2(s) ==
    IF InInterval1(s) /\ s.focus_wrt_exit_plane # conv(s).F2EQF2_low_lim
    THEN [s EXCEPT !.eq_factor = Poly(conv(s).F2EQF1_a, s.focus_wrt_exit_plane)]
    ELSE IF \/ InInterval2(s)
            \/ /\ s.focus_wrt_exit_plane = conv(s).F2EQF2_low_lim
               /\ Leq(s.focus_wrt_exit_plane, conv(s).F2EQF2_up_lim)
    THEN [s EXCEPT !.eq_factor = Poly(conv(s).F2EQF2_a, s.focus_wrt_exit_plane)]
    ELSE Raise(s, "SystemExit")

_calc_eq_factor(s) ==
    IF InInterval1(s)
    THEN [s EXCEPT !.eq_factor = Poly(conv(s).F2EQF1_a, s.focus_wrt_exit_plane)]
    ELSE IF InInterval2(s)
    THEN [s EXCEPT !.eq_factor = Poly(conv(s).F2EQF2_a, s.focus_wrt_exit_plane)]
    ELSE Raise(s, "SystemExit")

\* the voltage without the offset V2A_b
_calc_volt_no_offset(s) ==
    IF V2A_a(s) = Zero
    THEN [s EXCEPT !.volt = Zero]
    ELSE [s EXCEPT !.volt = Div(s.ampl, V2A_a(s))]

_calc_volt(s) ==
    IF V2A_a(s) = Zero
    THEN [s EXCEPT !.volt = Zero]
    ELSE [s EXCEPT !.volt = Div(Sub(s.ampl, V2A_b(s)), V2A_a(s))]

\* the pressure stored without the comparison against the maximum
_calc_press_unchecked(s) ==
    LET den == Mul(P2A_a(s), s.eq_factor)
        press_pa == Div(Sub(s.ampl, P2A_b(s)), den)
        press_mpa == Mul(press_pa, <<1, -6>>)
    IN  IF den = Zero THEN Raise(s, "ZeroDivisionError")
        ELSE [s EXCEPT !.press = press_mpa]

_calc_press(s) ==
    LET den == Mul(P2A_a(s), s.eq_factor)
        press_pa == Div(Sub(s.ampl, P2A_b(s)), den)
        press_mpa == Mul(press_pa, <<1, -6>>)
    IN  IF den = Zero THEN Raise(s, "ZeroDivisionError")
        ELSE IF Greater(press_mpa, MAX_ALLOWED_PRESSURE) THEN Raise(s, "SystemExit")
        ELSE [s EXCEPT !.press = press_mpa]

\* the amplitude stored as derived, above 100 % too
_calc_ampl_unclamped(s) ==
    LET press_pa == Mul(s.press, <<1, 6>>)
        a == Add(Mul(P2A_a(s), Mul(press_pa, s.eq_factor)), P2A_b(s))
        s1 == [s EXCEPT !.ampl = a]
    IN  IF Less(a, Zero)
        THEN Then(_calc_press([s1 EXCEPT !.ampl = Zero]), _calc_volt)
        ELSE s1

_calc_ampl(s) ==
    LET press_pa == Mul(s.press, <<1, 6>>)
        a == Add(Mul(P2A_a(s), Mul(press_pa, s.eq_factor)), P2A_b(s))
        s1 == [s EXCEPT !.ampl = a]
    IN  IF Greater(a, <<1, 2>>)
        THEN Then(_calc_press([s1 EXCEPT !.ampl = <<1, 2>>]), _calc_volt)
        ELSE IF Less(a, Zero)
        THEN Then(_calc_press([s1 EXCEPT !.ampl = Zero]), _calc_volt)
        ELSE s1

_calc_ampl_using_volt(s) ==
    [s EXCEPT !.ampl = Add(Mul(V2A_a(s), s.volt), V2A_b(s))]

\* a validation that never refuses zero
validate_value_allows_zero(value, check_pos, check_nonzero) ==
    IF check_pos /\ Less(value, Zero) THEN <<"negative">> ELSE <<>>

\* the messages of validate_value for a number; the call exits when any
validate_value(value, check_pos, check_nonzero) ==
    (IF check_nonzero /\ value = Zero THEN <<"zero">> ELSE <<>>)
    \o (IF check_pos /\ Less(value, Zero) THEN <<"negative">> ELSE <<>>)

_update_conv_param(s) ==
    Then(Then(_calc_eq_factor([s EXCEPT !.conv_param = s.ds_tran_combo]),
              _calc_ampl),
         _calc_volt)

\* is_validated = validate_value(...): the call exits when a message is logged
is_validated(s, value, check_pos, check_nonzero) ==
    IF validate_value(value, check_pos, check_nonzero) # <<>>
    THEN Raise(s, "SystemExit")
    ELSE s

\* self._ds_tran_combo in self._equip_combos
in_equip_combos(s) == s.ds_tran_combo \in DS_TRAN_COMBOS

\* a driving system setter that loads coefficients only when none are loaded
driving_sys_setter_loads_once(s, serial) ==
    LET s1 == [s EXCEPT !.driving_sys = serial,
                        !.ds_tran_combo = <<serial, s.transducer>>]
    IN  IF in_equip_combos(s1) /\ s1.conv_param = None
        THEN _update_conv_param(s1)
        ELSE s1

driving_sys_setter(s, serial) ==
    LET s1 == [s EXCEPT !.driving_sys = serial,
                        !.ds_tran_combo = <<serial, s.transducer>>]
    IN  IF in_equip_combos(s1) THEN _update_conv_param(s1) ELSE s1

\* a transducer setter that derives the bowl focus by the exit-plane offset on
\* calibrated combinations too
transducer_setter_offset_only(s, serial) ==
    LET s1 == [s EXCEPT !.transducer = serial,
                        !.oper_freq = D(math_floor(TranConfig(serial).fund_freq), 0),
                        !.focus_wrt_exit_plane = TranConfig(serial).min_foc,
                        !.ds_tran_combo = <<s.driving_sys, serial>>]
        offset(t) == [t EXCEPT !.focus_wrt_mid_bowl =
                         Add(t.focus_wrt_exit_plane, transducer_info(t).exit_plane_dist)]
    IN  IF in_equip_combos(s1) THEN Then(_update_conv_param(s1), offset) ELSE offset(s1)

transducer_setter(s, serial) ==
    LET s1 == [s EXCEPT !.transducer = serial,
                        !.oper_freq = D(math_floor(TranConfig(serial).fund_freq), 0),
                        !.focus_wrt_exit_plane = TranConfig(serial).min_foc,
                        !.ds_tran_combo = <<s.driving_sys, serial>>]
    IN  IF in_equip_combos(s1)
        THEN Then(_update_conv_param(s1),
                  LAMBDA t : [t EXCEPT !.focus_wrt_mid_bowl =
                                 Add(Mul(DF2SF_a(t), t.focus_wrt_exit_plane), DF2SF_b(t))])
        ELSE [s1 EXCEPT !.focus_wrt_mid_bowl =
                 Add(s1.focus_wrt_exit_plane, transducer_info(s1).exit_plane_dist)]

\* the unsupported branch rejecting every value from zero upwards
global_power_setter_rejects_zero(s, global_power) ==
    LET s1 == [s EXCEPT !.ampl = Zero, !.global_power = Zero]
    IN  IF manufact(s1) = SONIC_CONCEPTS
        THEN Then(is_validated(s1, global_power, TRUE, FALSE),
                  LAMBDA t : [t EXCEPT !.global_power = global_power,
                                       !.chosen_power = POW_GP])
        ELSE IF Geq(global_power, Zero) THEN Raise(s1, "SystemExit") ELSE s1

global_power_setter(s, global_power) ==
    LET s1 == [s EXCEPT !.ampl = Zero, !.global_power = Zero]
    IN  IF manufact(s1) = SONIC_CONCEPTS
        THEN Then(is_validated(s1, global_power, TRUE, FALSE),
                  LAMBDA t : [t EXCEPT !.global_power = global_power,
                                       !.chosen_power = POW_GP])
        ELSE IF Greater(global_power, Zero) THEN Raise(s1, "SystemExit") ELSE s1

\* the request 0 let through on a combination without calibration
press_setter_zero_uncalibrated(s, press) ==
    LET s1 == [s EXCEPT !.global_power = Zero, !.press = Zero]
    IN  IF in_equip_combos(s1)
        THEN Then(is_validated(s1, press, TRUE, FALSE),
                  LAMBDA t :
                      IF Greater(press, MAX_ALLOWED_PRESSURE)
                      THEN Raise(t, "SystemExit")
                      ELSE Then(_calc_ampl([t EXCEPT !.press = press,
                                                     !.chosen_power = POW_PRESS]),
                                _calc_volt))
        ELSE IF press = Zero THEN s1 ELSE Raise(s1, "SystemExit")

press_setter(s, press) ==
    LET s1 == [s EXCEPT !.global_power = Zero, !.press = Zero]
    IN  IF in_equip_combos(s1)
        THEN Then(is_validated(s1, press, TRUE, FALSE),
                  LAMBDA t :
                      IF Greater(press, MAX_ALLOWED_PRESSURE)
                      THEN Raise(t, "SystemExit")
                      ELSE Then(_calc_ampl([t EXCEPT !.press = press,
                                                     !.chosen_power = POW_PRESS]),
                                _calc_volt))
        ELSE Raise(s1, "SystemExit")

volt_setter(s, volt) ==
    LET s1 == [s EXCEPT !.global_power = Zero, !.volt = Zero]
    IN  IF in_equip_combos(s1)
        THEN Then(is_validated(s1, volt, TRUE, FALSE),
                  LAMBDA t :
                      _calc_press(_calc_ampl_using_volt(
                          [t EXCEPT !.volt = volt, !.chosen_power = POW_VOLT])))
        ELSE Raise(s1, "SystemExit")

ampl_setter(s, ampl) ==
    LET s1 == [s EXCEPT !.global_power = Zero, !.ampl = Zero]
    IN  IF manufact(s1) = IGT
        THEN Then(is_validated([s1 EXCEPT !.chosen_power = POW_AMPL], ampl, TRUE, FALSE),
                  LAMBDA t :
                      LET t1 == [t EXCEPT !.ampl = ampl]
                      IN  IF in_equip_combos(t1)
                          THEN _calc_press(_calc_volt(t1))
                          ELSE t1)
        ELSE IF Greater(ampl, Zero) THEN Raise(s1, "SystemExit") ELSE s1

\* a tail that keeps the amplitude and re-derives the pressure from it
focus_update_keeps_amplitude(s) ==
    IF in_equip_combos(s)
    THEN Then(Then(_calc_eq_factor(s), _calc_press), _calc_volt)
    ELSE s

\* the tail of both focus setters: the equalization factor, amplitude and
\* voltage follow the new focus when the combination is calibrated
focus_update(s) ==
    IF in_equip_combos(s)
    THEN Then(Then(_calc_eq_factor(s), _calc_ampl), _calc_volt)
    ELSE s

\* the range check refusing the limits themselves
focus_wrt_exit_plane_setter_open_range(s, focus) ==
    LET out_of_range ==
            \/ Leq(focus, transducer_info(s).min_foc)
            \/ Geq(focus, transducer_info(s).max_foc)
        store(t) ==
            IF ~in_equip_combos(t)
            THEN IF out_of_range
                 THEN Raise(t, "SystemExit")
                 ELSE [t EXCEPT !.focus_wrt_mid_bowl =
                          Add(focus, transducer_info(t).exit_plane_dist),
                                !.chosen_focus = FOC_WRT_EXIT,
                                !.focus_wrt_exit_plane = focus]
            ELSE [t EXCEPT !.focus_wrt_mid_bowl = Add(Mul(DF2SF_a(t), focus), DF2SF_b(t)),
                           !.chosen_focus = FOC_WRT_EXIT,
                           !.focus_wrt_exit_plane = focus]
    IN  Then(Then(is_validated(s, focus, TRUE, FALSE), store), focus_update)

focus_wrt_exit_plane_setter(s, focus) ==
    LET out_of_range ==
            \/ Less(focus, transducer_info(s).min_foc)
            \/ Greater(focus, transducer_info(s).max_foc)
        store(t) ==
            IF ~in_equip_combos(t)
            THEN IF out_of_range
                 THEN Raise(t, "SystemExit")
                 ELSE [t EXCEPT !.focus_wrt_mid_bowl =
                          Add(focus, transducer_info(t).exit_plane_dist),
                                !.chosen_focus = FOC_WRT_EXIT,
                                !.focus_wrt_exit_plane = focus]
            ELSE [t EXCEPT !.focus_wrt_mid_bowl = Add(Mul(DF2SF_a(t), focus), DF2SF_b(t)),
                           !.chosen_focus = FOC_WRT_EXIT,
                           !.focus_wrt_exit_plane = focus]
    IN  Then(Then(is_validated(s, focus, TRUE, FALSE), store), focus_update)

\* a bowl focus setter that applies the exit-plane offset on calibrated
\* combinations too
focus_wrt_mid_bowl_setter_offset_only(s, focus) ==
    LET store(t) ==
            LET t1 == [t EXCEPT !.focus_wrt_exit_plane =
                           Sub(focus, transducer_info(t).exit_plane_dist)]
            IN  IF \/ Less(t1.focus_wrt_exit_plane, transducer_info(t1).min_foc)
                   \/ Greater(t1.focus_wrt_exit_plane, transducer_info(t1).max_foc)
                THEN Raise(t1, "SystemExit")
                ELSE [t1 EXCEPT !.chosen_focus = FOC_WRT_BOWL,
                                !.focus_wrt_mid_bowl = focus]
    IN  Then(Then(is_validated(s, focus, TRUE, FALSE), store), focus_update)

focus_wrt_mid_bowl_setter(s, focus) ==
    LET store(t) ==
            IF in_equip_combos(t) /\ DF2SF_a(t) # Zero
            THEN [t EXCEPT !.focus_wrt_exit_plane =
                      Div(Sub(focus, DF2SF_b(t)), DF2SF_a(t)),
                           !.chosen_focus = FOC_WRT_BOWL,
                           !.focus_wrt_mid_bowl = focus]
            ELSE LET t1 == [t EXCEPT !.focus_wrt_exit_plane =
                                Sub(focus, transducer_info(t).exit_plane_dist)]
                 IN  IF \/ Less(t1.focus_wrt_exit_plane, transducer_info(t1).min_foc)
                        \/ Greater(t1.focus_wrt_exit_plane, transducer_info(t1).max_foc)
                     THEN Raise(t1, "SystemExit")
                     ELSE [t1 EXCEPT !.chosen_focus = FOC_WRT_BOWL,
                                     !.focus_wrt_mid_bowl = focus]
    IN  Then(Then(is_validated(s, focus, TRUE, FALSE), store), focus_update)

pulse_dur_setter(s, pulse_dur) ==
    Then(is_validated(s, pulse_dur, TRUE, TRUE),
         LAMBDA t : [t EXCEPT !.timing_param.pulse_dur = pulse_dur])

pulse_rep_int_setter(s, pulse_rep_int) ==
    Then(is_validated(s, pulse_rep_int, TRUE, TRUE),
         LAMBDA t : [t EXCEPT !.timing_param.pulse_rep_int = pulse_rep_int])

pulse_ramp_shape_setter(s, pulse_ramp_shape) ==
    IF pulse_ramp_shape \notin {RAMP_SHAPES[i] : i \in DOMAIN RAMP_SHAPES}
    THEN Raise(s, "SystemExit")
    ELSE [s EXCEPT !.timing_param.pulse_ramp_shape = pulse_ramp_shape]

pulse_ramp_dur_setter(s, pulse_ramp_dur) ==
    Then(is_validated(s, pulse_ramp_dur, TRUE, FALSE),
         LAMBDA t : [t EXCEPT !.timing_param.pulse_ramp_dur = pulse_ramp_dur])

pulse_train_dur_setter(s, pulse_train_dur) ==
    Then(is_validated(s, pulse_train_dur, TRUE, TRUE),
         LAMBDA t :
             IF manufact(t) = SONIC_CONCEPTS
             THEN [t EXCEPT !.timing_param.pulse_train_dur = pulse_train_dur,
                            !.timing_param.pulse_train_rep_int = None,
                            !.timing_param.pulse_train_rep_dur = None]
             ELSE [t EXCEPT !.timing_param.pulse_train_dur = pulse_train_dur])

pulse_train_rep_int_setter(s, pulse_train_rep_int) ==
    Then(is_validated(s, pulse_train_rep_int, TRUE, TRUE),
         LAMBDA t : [t EXCEPT !.timing_param.pulse_train_rep_int = pulse_train_rep_int])

\* the argument is in seconds, the stored value in milliseconds
pulse_train_rep_dur_setter(s, pulse_train_rep_dur) ==
    Then(is_validated(s, pulse_train_rep_dur, TRUE, TRUE),
         LAMBDA t : [t EXCEPT !.timing_param.pulse_train_rep_dur =
                                  Mul(pulse_train_rep_dur, <<1, 3>>)])

n_triggers_setter(s, n_triggers) ==
    Then(is_validated(s, n_triggers, TRUE, TRUE),
         LAMBDA t :
             Then(pulse_train_rep_int_setter([t EXCEPT !.n_triggers = n_triggers],
                                             t.timing_param.pulse_train_dur),
                  LAMBDA u : pulse_train_rep_dur_setter(u, u.timing_param.pulse_train_dur)))

seq_num_setter(s, seq_num) ==
    Then(is_validated(s, seq_num, TRUE, FALSE),
         LAMBDA t : [t EXCEPT !.seq_num = seq_num])

\* the stored frequency is int(oper_freq)
oper_freq_setter(s, oper_freq) ==
    Then(is_validated(s, oper_freq, TRUE, TRUE),
         LAMBDA t : [t EXCEPT !.oper_freq = D(math_floor(oper_freq), 0)])

trigger_option_setter(s, trigger_option) ==
    IF trigger_option \notin {TRIGGER_OPTIONS[i] : i \in DOMAIN TRIGGER_OPTIONS}
    THEN Raise(s, "SystemExit")
    ELSE [s EXCEPT !.trigger_option = trigger_option]

\* a setter that stores whatever it is given
chosen_power_setter_unchecked(s, chosen_power) ==
    [s EXCEPT !.chosen_power = chosen_power]

chosen_power_setter(s, chosen_power) ==
    IF chosen_power \notin {POWER_OPTIONS[i] : i \in DOMAIN POWER_OPTIONS}
    THEN Raise(s, "SystemExit")
    ELSE [s EXCEPT !.chosen_power = chosen_power]

chosen_focus_setter(s, chosen_focus) ==
    IF chosen_focus \notin {FOCUS_OPTIONS[i] : i \in DOMAIN FOCUS_OPTIONS}
    THEN Raise(s, "SystemExit")
    ELSE [s EXCEPT !.chosen_focus = chosen_focus]

\* __init__ after the default transducer is set: the focus option and the
\* exit-plane focus
init_focus(s) ==
    [s EXCEPT !.chosen_focus = FOC_WRT_EXIT,
              !.focus_wrt_exit_plane =
                  Sub(s.focus_wrt_mid_bowl, transducer_info(s).exit_plane_dist)]

\* __init__: the conversion parameters of a calibrated default combination
init_conv_param(s) == IF in_equip_combos(s) THEN _update_conv_param(s) ELSE s

\* __init__: the default timing parameters
init_timing_param(s) ==
    [s EXCEPT !.timing_param =
        [pulse_dur |-> <<25, -2>>,
         pulse_rep_int |-> <<2, 1>>,
         pulse_ramp_shape |-> RAMP_SHAPES[1],
         pulse_ramp_dur |-> Zero,
         pulse_train_dur |-> <<2, 1>>,
         pulse_train_rep_int |-> <<2, 1>>,
         pulse_train_rep_dur |-> <<2, 1>>]]

\* the fields of a Sequence at the end of __init__
Sequence_init ==
    init_timing_param(init_conv_param(init_focus(transducer_setter(
        [exc |-> NoExc,
         seq_num |-> Zero,
         driving_sys |-> DrivingSystems[1],
         trigger_option |-> TRIGGER_OPTIONS[1],
         n_triggers |-> Zero,
         chosen_power |-> None,
         global_power |-> Zero, press |-> Zero, volt |-> Zero, ampl |-> Zero,
         eq_factor |-> Zero,
         focus_wrt_mid_bowl |-> <<4, 1>>,
         oper_freq |-> Zero,
         transducer |-> None,
         chosen_focus |-> None,
         focus_wrt_exit_plane |-> None,
         conv_param |-> None,
         ds_tran_combo |-> None,
         timing_param |-> None],
        Transducers[1]))))

(***************************************************************************)
(* The state: the fields of one Sequence object, the last call made on or  *)
(* with it, the exception that call ended with and the value it returned,  *)
(* and the number of setter calls made.  A caller that catches SystemExit  *)
(* keeps the object and goes on calling it.  igt is the IGT driving system *)
(* object that the sequence is handed to.                                  *)
(***************************************************************************)

VARIABLES seq, outcome, calls, result, igt

vars == <<seq, outcome, calls, result, igt>>

\* the IGT object after construction: not connected, no generator, no
\* FUSSystem, nothing sent.  stack holds the running calls of the object's
\* methods, innermost last, as records of the method, its position and its
\* attempt argument.  attempts counts the connect() invocations of the running
\* top-level connect(), uploaded the buffers handed to gen.sendSequence since
\* connect() was last entered; the code reads neither.
IGT_init ==
    [connected |-> FALSE, fus |-> FALSE, sent_seqs |-> {}, stack |-> <<>>,
     attempts |-> 0, uploaded |-> {}]

\* the longest history of setter calls explored
MaxCalls == 5

\* the names of the fields
Fields ==
    {"seq_num", "driving_sys", "trigger_option", "n_triggers", "chosen_power",
     "global_power", "press", "volt", "ampl", "eq_factor", "focus_wrt_mid_bowl",
     "oper_freq", "transducer", "chosen_focus", "focus_wrt_exit_plane",
     "conv_param", "ds_tran_combo", "timing_param"}

\* the object at the start of a call
self == [k \in Fields \cup {"exc"} |-> IF k = "exc" THEN NoExc ELSE seq[k]]

\* the call op(arg) ends with the fields and the exception of r
Call(op, arg, r) ==
    /\ calls < MaxCalls
    /\ calls' = calls + 1
    /\ \E t \in {r} :
           /\ seq' = [k \in Fields |-> t[k]]
           /\ outcome' = [op |-> op, arg |-> arg, exc |-> t.exc]
    /\ result' = None
    /\ UNCHANGED igt

\* values handed to the setters
MaxPressStep == 3

MaxVoltStep == 2

MaxAmplStep == 3

MaxPowerStep == 1

MaxTimingStep == 1

MaxTriggers == 1

PressInputs ==
    {Mul(D(k, 0), <<5, -1>>) : k \in 0..MaxPressStep} \cup {<<14, -1>>, <<-1, 0>>}

VoltInputs == {Mul(D(k, 0), <<1, 1>>) : k \in 0..MaxVoltStep} \cup {<<-1, 0>>}

AmplInputs == {Mul(D(k, 0), <<5, 1>>) : k \in 0..MaxAmplStep} \cup {<<-1, 0>>}

PowerInputs == {Mul(D(k, 0), <<5, 0>>) : k \in 0..MaxPowerStep} \cup {<<-1, 0>>}

ExitFocusInputs ==
    {<<-1, 0>>, <<718, -2>>, <<719, -2>>, <<1874, -2>>, <<1875, -2>>,
     <<9601, -2>>, <<9602, -2>>}

BowlFocusInputs == {<<-1, 0>>, <<22876, -3>>, <<4, 1>>, <<12, 1>>}

TimingInputs == {Mul(D(k, 0), <<1, 1>>) : k \in 0..MaxTimingStep} \cup {<<-1, 0>>}

TriggerInputs == {D(k, 0) : k \in 0..MaxTriggers} \cup {<<-1, 0>>}

RampShapeInputs == {RAMP_SHAPES[2], "Shota"}

Init ==
    /\ seq = [k \in Fields |-> Sequence_init[k]]
    /\ outcome = [op |-> "__init__", arg |-> None, exc |-> NoExc]
    /\ calls = 0
    /\ result = None
    /\ igt = IGT_init

SetDrivingSys ==
    \E serial \in {DrivingSystems[i] : i \in DOMAIN DrivingSystems} :
        Call("driving_sys", serial, driving_sys_setter(self, serial))

SetTransducer ==
    \E serial \in {Transducers[i] : i \in DOMAIN Transducers} :
        Call("transducer", serial, transducer_setter(self, serial))

SetGlobalPower ==
    \E p \in PowerInputs : Call("global_power", p, global_power_setter(self, p))

SetPress == \E p \in PressInputs : Call("press", p, press_setter(self, p))

SetVolt == \E v \in VoltInputs : Call("volt", v, volt_setter(self, v))

SetAmpl == \E a \in AmplInputs : Call("ampl", a, ampl_setter(self, a))

SetFocusWrtExitPlane ==
    \E f \in ExitFocusInputs :
        Call("focus_wrt_exit_plane", f, focus_wrt_exit_plane_setter(self, f))

SetFocusWrtMidBowl ==
    \E f \in BowlFocusInputs :
        Call("focus_wrt_mid_bowl", f, focus_wrt_mid_bowl_setter(self, f))

SetPulseDur ==
    \E v \in TimingInputs : Call("pulse_dur", v, pulse_dur_setter(self, v))

SetPulseRepInt ==
    \E v \in TimingInputs : Call("pulse_rep_int", v, pulse_rep_int_setter(self, v))

SetPulseRampShape ==
    \E shape \in RampShapeInputs :
        Call("pulse_ramp_shape", shape, pulse_ramp_shape_setter(self, shape))

SetPulseRampDur ==
    \E v \in TimingInputs : Call("pulse_ramp_dur", v, pulse_ramp_dur_setter(self, v))

SetPulseTrainDur ==
    \E v \in TimingInputs : Call("pulse_train_dur", v, pulse_train_dur_setter(self, v))

SetPulseTrainRepInt ==
    \E v \in TimingInputs :
        Call("pulse_train_rep_int", v, pulse_train_rep_int_setter(self, v))

SetPulseTrainRepDur ==
    \E v \in TimingInputs :
        Call("pulse_train_rep_dur", v, pulse_train_rep_dur_setter(self, v))

SetNTriggers ==
    \E n \in TriggerInputs : Call("n_triggers", n, n_triggers_setter(self, n))

Next ==
    \/ SetDrivingSys
    \/ SetTransducer
    \/ SetGlobalPower
    \/ SetPress
    \/ SetVolt
    \/ SetAmpl
    \/ SetFocusWrtExitPlane
    \/ SetFocusWrtMidBowl

Spec == Init /\ [][Next]_vars

\* the timing of a sequence: the timing setters, the trigger count and the
\* driving system
NextTiming ==
    \/ SetDrivingSys
    \/ SetPulseDur
    \/ SetPulseRepInt
    \/ SetPulseRampShape
    \/ SetPulseRampDur
    \/ SetPulseTrainDur
    \/ SetPulseTrainRepInt
    \/ SetPulseTrainRepDur
    \/ SetNTriggers

SpecTiming == Init /\ [][NextTiming]_vars

(***************************************************************************)
(* Validation of a sequence before it is sent to a driving system          *)
(* (control_driving_system.py, igt/igt_ds.py).  A message is modelled by   *)
(* the name of the rule it reports.  A validator returns the record        *)
(* [exc, error_messages]: the exception it ends with and the list it       *)
(* returns.                                                                *)
(***************************************************************************)

\* float.is_integer(): a canonical number is whole iff its exponent is >= 0
is_integer(x) == x[2] >= 0

\* error_messages.append(msg) under the condition cond
AppendIf(error_messages, cond, msg) ==
    IF cond THEN Append(error_messages, msg) ELSE error_messages

\* the six rules of the base validator, in the order of the code
BaseMessages ==
    <<"n_pulses not integer",
      "n_pulse_trains not integer",
      "pulse_dur > pulse_rep_int",
      "pulse_rep_int > pulse_train_dur",
      "pulse_train_dur > pulse_train_rep_int",
      "pulse_train_rep_int > pulse_train_rep_dur">>

\* the rules of the IGT validator, in the order of the code
IGTMessages ==
    <<"pulse_dur < 1 us",
      "pulse_rep_int < 170 us",
      "ramping leaves less than 70 us",
      "ampl is None",
      "n_pulses > 64">>

\* ControlDrivingSystem.validate_sequence: the division of line 139 raises
\* TypeError when a repetition field is None
validate_sequence(sequence) ==
    LET tp == sequence.timing_param
        n_pulses == Div(tp.pulse_train_dur, tp.pulse_rep_int)
        m1 == AppendIf(<<>>, ~is_integer(n_pulses), BaseMessages[1])
    IN  IF tp.pulse_train_rep_dur = None \/ tp.pulse_train_rep_int = None
        THEN [exc |-> "TypeError", error_messages |-> None]
        ELSE LET n_pulse_trains == Div(tp.pulse_train_rep_dur, tp.pulse_train_rep_int)
                 m2 == AppendIf(m1, ~is_integer(n_pulse_trains), BaseMessages[2])
                 m3 == AppendIf(m2, Greater(tp.pulse_dur, tp.pulse_rep_int), BaseMessages[3])
                 m4 == AppendIf(m3, Greater(tp.pulse_rep_int, tp.pulse_train_dur),
                                BaseMessages[4])
                 m5 == AppendIf(m4, Greater(tp.pulse_train_dur, tp.pulse_train_rep_int),
                                BaseMessages[5])
                 m6 == AppendIf(m5, Greater(tp.pulse_train_rep_int, tp.pulse_train_rep_dur),
                                BaseMessages[6])
             IN  [exc |-> NoExc, error_messages |-> m6]

\* the largest number of pulses in a pulse train the IGT system accepts
max_n_pulses == 64

\* device rules without the limit on the pulses of a train
IGT_device_rules_any_pulse_count(sequence, error_messages) ==
    LET tp == sequence.timing_param
        m1 == AppendIf(error_messages, Less(tp.pulse_dur, <<1, -3>>), IGTMessages[1])
        m2 == AppendIf(m1, Less(tp.pulse_rep_int, <<17, -2>>), IGTMessages[2])
        m3 == AppendIf(m2,
                       /\ Greater(tp.pulse_ramp_dur, Zero)
                       /\ tp.pulse_ramp_shape # RAMP_SHAPES[1]
                       /\ Greater(tp.pulse_ramp_dur,
                                  Sub(Div(tp.pulse_dur, <<2, 0>>), <<35, -3>>)),
                       IGTMessages[3])
    IN  AppendIf(m3, sequence.ampl = None, IGTMessages[4])

\* the device rules of IGT.validate_sequence appended to the list
\* error_messages
IGT_device_rules(sequence, error_messages) ==
    LET tp == sequence.timing_param
        m1 == AppendIf(error_messages, Less(tp.pulse_dur, <<1, -3>>), IGTMessages[1])
        m2 == AppendIf(m1, Less(tp.pulse_rep_int, <<17, -2>>), IGTMessages[2])
        m3 == AppendIf(m2,
                       /\ Greater(tp.pulse_ramp_dur, Zero)
                       /\ tp.pulse_ramp_shape # RAMP_SHAPES[1]
                       /\ Greater(tp.pulse_ramp_dur,
                                  Sub(Div(tp.pulse_dur, <<2, 0>>), <<35, -3>>)),
                       IGTMessages[3])
        m4 == AppendIf(m3, sequence.ampl = None, IGTMessages[4])
        n_pulses == Div(tp.pulse_train_dur, tp.pulse_rep_int)
    IN  AppendIf(m4, Greater(n_pulses, D(max_n_pulses, 0)), IGTMessages[5])

\* an IGT validator that applies the device rules only
IGT_validate_sequence_device_only(sequence) ==
    LET base == validate_sequence(sequence)
    IN  IF base.exc # NoExc THEN base
        ELSE [exc |-> NoExc, error_messages |-> IGT_device_rules(sequence, <<>>)]

\* IGT.validate_sequence: the messages of the base validator, then the
\* device rules; an exception of the base validator propagates
IGT_validate_sequence(sequence) ==
    LET base == validate_sequence(sequence)
    IN  IF base.exc # NoExc THEN base
        ELSE [exc |-> NoExc,
              error_messages |-> IGT_device_rules(sequence, base.error_messages)]

\* timing values [ms] of the sequences handed to the validators; each is a
\* value its setter stores, None being what the pulse train duration setter
\* leaves in the repetition fields of a Sonic Concepts sequence
PulseDurValues == {<<5, -4>>, <<1, -1>>, <<25, -2>>, <<1, 1>>, <<5, 1>>}

PulseRepIntValues == {<<1, -1>>, <<25, -2>>, <<3125, -4>>, <<2, 1>>, <<4, 1>>, <<45, 0>>}

PulseRampDurValues == {Zero, <<15, -3>>, <<2, -2>>}

PulseRampShapeValues == {RAMP_SHAPES[1], RAMP_SHAPES[2]}

PulseTrainDurValues == {<<2, 1>>, <<9, 1>>}

PulseTrainRepIntValues == {None, <<9, 1>>, <<1, 2>>}

PulseTrainRepDurValues == {None, <<5, 1>>, <<9, 1>>, <<2, 2>>, <<25, 1>>}

\* a sequence built by the timing setters from the default sequence
InitValidate ==
    /\ \E pd \in PulseDurValues, pri \in PulseRepIntValues,
          prd \in PulseRampDurValues, prs \in PulseRampShapeValues,
          ptd \in PulseTrainDurValues, ptri \in PulseTrainRepIntValues,
          ptrd \in PulseTrainRepDurValues :
           seq = [k \in Fields |->
                     IF k = "timing_param"
                     THEN [pulse_dur |-> pd,
                           pulse_rep_int |-> pri,
                           pulse_ramp_shape |-> prs,
                           pulse_ramp_dur |-> prd,
                           pulse_train_dur |-> ptd,
                           pulse_train_rep_int |-> ptri,
                           pulse_train_rep_dur |-> ptrd]
                     ELSE Sequence_init[k]]
    /\ outcome = [op |-> "__init__", arg |-> None, exc |-> NoExc]
    /\ calls = 0
    /\ result = None
    /\ igt = IGT_init

\* a validator is called on the sequence and ends as r: the sequence is only
\* read
Validate(op, r) ==
    /\ outcome' = [op |-> op, arg |-> None, exc |-> r.exc]
    /\ result' = r.error_messages
    /\ UNCHANGED <<seq, calls, igt>>

ValidateSequence == Validate("validate_sequence", validate_sequence(seq))

IGTValidateSequence == Validate("IGT.validate_sequence", IGT_validate_sequence(seq))

NextValidate ==
    \/ ValidateSequence
    \/ IGTValidateSequence

SpecValidate == InitValidate /\ [][NextValidate]_vars

(***************************************************************************)
(* Pulse ramping of the IGT system (igt/igt_ds.py).  The ramp tables are   *)
(* sequences; the entries handed to the generator are integers.            *)
(***************************************************************************)

\* math.pi
math_pi == <<31416, -4>>

\* cos(u) for 0 <= u <= pi/2: the power series up to u^10
cos_series(u) ==
    LET u2 == Mul(u, u)
        t5 == Sub(<<1, 0>>, Div(u2, <<9, 1>>))
        t4 == Sub(<<1, 0>>, Mul(Div(u2, <<56, 0>>), t5))
        t3 == Sub(<<1, 0>>, Mul(Div(u2, <<3, 1>>), t4))
        t2 == Sub(<<1, 0>>, Mul(Div(u2, <<12, 0>>), t3))
    IN  Sub(<<1, 0>>, Mul(Div(u2, <<2, 0>>), t2))

\* math.cos(t) for -pi <= t <= pi
math_cos(t) ==
    LET a == IF Less(t, Zero) THEN Neg(t) ELSE t
    IN  IF Greater(a, Div(math_pi, <<2, 0>>))
        THEN Neg(cos_series(Sub(math_pi, a)))
        ELSE cos_series(a)

\* math.sin(t) for -pi/2 <= t <= pi/2
math_sin(t) == math_cos(Sub(t, Div(math_pi, <<2, 0>>)))

\* num samples with step stop/num, the end point left out
linspace_without_endpoint(stop, num) ==
    [i \in 1..num |-> IF i = 1 THEN Zero ELSE Mul(Div(stop, D(num, 0)), D(i - 1, 0))]

\* np.linspace(0, stop, num): num samples with step stop/(num - 1), the last
\* one set to stop
linspace(stop, num) ==
    [i \in 1..num |->
        IF i = num /\ num > 1 THEN stop
        ELSE IF i = 1 THEN Zero
        ELSE Mul(Div(stop, D(num - 1, 0)), D(i - 1, 0))]

\* IGT._get_ramping_amplitude: the record [exc, ampl_ramp]; no branch binds
\* ampl_ramp for the rectangular shape
_get_ramping_amplitude(sequence, pulse_ramp_temp_res) ==
    LET tp == sequence.timing_param
        n_points == math_floor(Div(tp.pulse_ramp_dur, pulse_ramp_temp_res))
        pulse_ramp_dur_s == Div(tp.pulse_ramp_dur, <<1, 3>>)
        f == Div(<<1, 0>>, Mul(pulse_ramp_dur_s, <<2, 0>>))
        two_pi == Mul(math_pi, <<2, 0>>)
        tukey(x) == Mul(Add(<<1, 0>>, math_cos(Mul(two_pi, Sub(x, <<5, -1>>)))),
                        <<5, -1>>)
        shota(x) == Mul(Add(<<1, 0>>,
                            math_sin(Sub(Mul(Mul(two_pi, f), x),
                                         Div(math_pi, <<2, 0>>)))),
                        <<5, -1>>)
    IN  IF tp.pulse_ramp_shape = "Linear"
        THEN [exc |-> NoExc, ampl_ramp |-> linspace(<<1, 0>>, n_points)]
        ELSE IF tp.pulse_ramp_shape = "Tukey"
        THEN [exc |-> NoExc,
              ampl_ramp |-> [i \in 1..n_points |-> tukey(linspace(<<5, -1>>, n_points)[i])]]
        ELSE IF tp.pulse_ramp_shape = "Shota"
        THEN [exc |-> NoExc,
              ampl_ramp |-> [i \in 1..n_points |->
                                shota(linspace(pulse_ramp_dur_s, n_points)[i])]]
        ELSE [exc |-> "UnboundLocalError", ampl_ramp |-> None]

\* the largest number of samples of a ramp table
max_ramp_steps == 1023

\* the array in its own order
not_flipped(a) == a

\* np.flip
flip(a) == [i \in 1..Len(a) |-> a[Len(a) + 1 - i]]

\* the ramp tables in percent, cut to integers
percent(ampl_ramp) ==
    [i \in 1..Len(ampl_ramp) |-> math_floor(Mul(ampl_ramp[i], <<1, 2>>))]

\* the resolution kept at 0.005 ms for every ramp duration
ramp_temp_res_fixed(pulse_ramp_dur) == <<5, -3>>

\* the temporal resolution _apply_ramping chooses for the ramp duration
ramp_temp_res(pulse_ramp_dur) ==
    IF math_floor(Div(pulse_ramp_dur, <<5, -3>>)) > max_ramp_steps
    THEN Div(pulse_ramp_dur, D(max_ramp_steps, 0))
    ELSE <<5, -3>>

\* IGT._apply_ramping: the record [exc, modulation], modulation being the
\* arguments of gen.setPulseModulation
_apply_ramping(sequence) ==
    LET min_ramp_temp_res == ramp_temp_res(sequence.timing_param.pulse_ramp_dur)
        r == _get_ramping_amplitude(sequence, min_ramp_temp_res)
    IN  IF r.exc # NoExc THEN [exc |-> r.exc, modulation |-> None]
        ELSE [exc |-> NoExc,
              modulation |-> [ramp_up |-> percent(flip(r.ampl_ramp)),
                              ramp_up_res |-> min_ramp_temp_res,
                              ramp_down |-> percent(r.ampl_ramp),
                              ramp_down_res |-> min_ramp_temp_res]]

\* ramp durations [ms] and shapes of the sequences that are ramped, each a
\* value its setter stores; 5.115 ms is the longest ramp of 1023 samples at
\* 0.005 ms
PulseRampDurations ==
    {Zero, <<15, -3>>, <<1, -1>>, <<1, 0>>, <<3, 0>>, <<5, 0>>, <<5115, -3>>,
     <<512, -2>>, <<6, 0>>, <<1, 1>>}

\* temporal resolutions [ms] handed to _get_ramping_amplitude
RampResolutions == {<<1, 0>>, <<5, -1>>, <<5, -3>>}

\* a sequence of the IGT system with a non-zero amplitude and a timing that
\* passes validation for every ramp drawn
RampSequence(pulse_ramp_dur, pulse_ramp_shape) ==
    [ampl_setter(driving_sys_setter(Sequence_init, IGT_DS[1]), <<5, 1>>)
        EXCEPT !.timing_param =
            [pulse_dur |-> <<25, 0>>,
             pulse_rep_int |-> <<5, 1>>,
             pulse_ramp_shape |-> pulse_ramp_shape,
             pulse_ramp_dur |-> pulse_ramp_dur,
             pulse_train_dur |-> <<1, 2>>,
             pulse_train_rep_int |-> <<2, 2>>,
             pulse_train_rep_dur |-> <<4, 2>>]]

InitRamp ==
    /\ \E prd \in PulseRampDurations, i \in DOMAIN RAMP_SHAPES :
           seq = [k \in Fields |-> RampSequence(prd, RAMP_SHAPES[i])[k]]
    /\ outcome = [op |-> "__init__", arg |-> None, exc |-> NoExc]
    /\ calls = 0
    /\ result = None
    /\ igt = IGT_init

\* send_sequence ramps a sequence that passed validation, has a shape other
\* than rectangular and a positive amplitude
ApplyRamping ==
    /\ IGT_validate_sequence(seq) = [exc |-> NoExc, error_messages |-> <<>>]
    /\ seq.timing_param.pulse_ramp_shape # RAMP_SHAPES[1]
    /\ Greater(seq.ampl, Zero)
    /\ outcome' = [op |-> "_apply_ramping", arg |-> None, exc |-> _apply_ramping(seq).exc]
    /\ result' = _apply_ramping(seq).modulation
    /\ UNCHANGED <<seq, calls, igt>>

GetRampingAmplitude ==
    \E pulse_ramp_temp_res \in RampResolutions :
        /\ outcome' = [op |-> "_get_ramping_amplitude", arg |-> pulse_ramp_temp_res,
                       exc |-> _get_ramping_amplitude(seq, pulse_ramp_temp_res).exc]
        /\ result' = _get_ramping_amplitude(seq, pulse_ramp_temp_res).ampl_ramp
        /\ UNCHANGED <<seq, calls, igt>>

NextRamp ==
    \/ ApplyRamping
    \/ GetRampingAmplitude

SpecRamp == InitRamp /\ [][NextRamp]_vars

\* the exit-plane focus is read and set again:
\* seq.focus_wrt_exit_plane = seq.focus_wrt_exit_plane
SetFocusWrtExitPlaneAsRead ==
    Call("focus_wrt_exit_plane", seq.focus_wrt_exit_plane,
         focus_wrt_exit_plane_setter(self, seq.focus_wrt_exit_plane))

\* operating frequencies [kHz] handed to the setter
OperFreqInputs == {<<-1, 0>>, Zero, <<2505, -1>>}

SetSeqNum == \E n \in TriggerInputs : Call("seq_num", n, seq_num_setter(self, n))

SetOperFreq == \E f \in OperFreqInputs : Call("oper_freq", f, oper_freq_setter(self, f))

\* the validated numeric setters: the timing setters, the trigger count, the
\* sequence number and the operating frequency
NextNumeric ==
    \/ NextTiming
    \/ SetSeqNum
    \/ SetOperFreq

SpecNumeric == Init /\ [][NextNumeric]_vars

\* the focus of a sequence: the equipment, pressure, frequency and bowl focus
\* setters and the exit-plane focus set to the value read
NextFocus ==
    \/ SetDrivingSys
    \/ SetTransducer
    \/ SetPress
    \/ SetOperFreq
    \/ SetFocusWrtMidBowl
    \/ SetFocusWrtExitPlaneAsRead

SpecFocus == Init /\ [][NextFocus]_vars

\* options handed to the option setters: declared ones and one that is not
TriggerOptionInputs == {TRIGGER_OPTIONS[2], TRIGGER_OPTIONS[3], "TriggerPulse"}

PowerOptionInputs == {POW_AMPL, POW_PRESS, "Power [W]"}

FocusOptionInputs == {FOC_WRT_BOWL, "Focus wrt skin [mm]"}

SetTriggerOption ==
    \E o \in TriggerOptionInputs : Call("trigger_option", o, trigger_option_setter(self, o))

SetChosenPower ==
    \E o \in PowerOptionInputs : Call("chosen_power", o, chosen_power_setter(self, o))

SetChosenFocus ==
    \E o \in FocusOptionInputs : Call("chosen_focus", o, chosen_focus_setter(self, o))

\* the options of a sequence: the option setters and the setters that select
\* an option themselves
NextOptions ==
    \/ SetTriggerOption
    \/ SetChosenPower
    \/ SetChosenFocus
    \/ SetPulseRampShape
    \/ SetDrivingSys
    \/ SetTransducer
    \/ SetPress
    \/ SetAmpl
    \/ SetFocusWrtMidBowl

SpecOptions == Init /\ [][NextOptions]_vars

(***************************************************************************)
(* The IGT driving system object: connect with its retries, disconnect,    *)
(* send_sequence, execute_sequence and wait_for_trigger.  A method that    *)
(* calls another method of the object waits in stack while the callee      *)
(* runs; the answers of the unifus library are chosen freely at each step. *)
(***************************************************************************)

\* the longest history of calls made on the IGT object and the sequence
MaxIGTCalls == 3

\* a step of a running method ends with the object g and the exception exc; an
\* exception unwinds every running call
IGTStep(op, arg, exc, g) ==
    /\ igt' = IF exc = NoExc THEN g ELSE [g EXCEPT !.stack = <<>>]
    /\ outcome' = [op |-> op, arg |-> arg, exc |-> exc]
    /\ UNCHANGED <<seq, calls, result>>

\* fus.isConnected() answers still_connected after fus.disconnect()
disconnect(g, still_connected) ==
    IF g.fus THEN [g EXCEPT !.connected = still_connected] ELSE g

\* the sequences handed to the IGT object: one that passes validation and one
\* whose pulse duration exceeds its pulse repetition interval
IGTSequences ==
    {[k \in Fields |-> s[k]] :
     s \in {[RampSequence(Zero, RAMP_SHAPES[1])
                EXCEPT !.timing_param.pulse_dur = pulse_dur] :
            pulse_dur \in {<<25, 0>>, <<1, 2>>}}}

InitIGT ==
    /\ seq \in IGTSequences
    /\ outcome = [op |-> "__init__", arg |-> None, exc |-> NoExc]
    /\ calls = 0
    /\ result = None
    /\ igt = IGT_init

\* the caller starts a method of the object with the sequence as seq1; seq2
\* is the empty list for None and a list of one sequence otherwise.  checked
\* is what validate_sequence answers for seq1 and seq2, which stay as they are
\* while the call runs
IGTCall ==
    \E fn \in {"connect", "send_sequence", "execute_sequence", "wait_for_trigger"},
       seq2 \in {<<>>} \cup {<<s>> : s \in IGTSequences} :
        /\ igt.stack = <<>>
        /\ calls < MaxIGTCalls
        /\ calls' = calls + 1
        /\ fn = "connect" => seq2 = <<>>
        /\ \E checked \in {IF fn = "connect" THEN <<>>
                             ELSE IF seq2 = <<>> THEN <<IGT_validate_sequence(seq)>>
                             ELSE <<IGT_validate_sequence(seq),
                                    IGT_validate_sequence(seq2[1])>>} :
               igt' = [igt EXCEPT !.stack =
                          <<[fn |-> fn, pc |-> "start", attempt |-> 0, seq2 |-> seq2,
                             checked |-> checked]>>]
        /\ outcome' = [op |-> "call", arg |-> fn, exc |-> NoExc]
        /\ UNCHANGED <<seq, result>>

Disconnect ==
    \E still_connected \in BOOLEAN :
        /\ igt.stack = <<>>
        /\ calls < MaxIGTCalls
        /\ calls' = calls + 1
        /\ igt' = disconnect(igt, still_connected)
        /\ outcome' = [op |-> "disconnect", arg |-> None, exc |-> NoExc]
        /\ UNCHANGED <<seq, result>>

\* a connect() that returns after its last attempt found no connection
ConnectStep_gives_up_quietly ==
    /\ igt.stack # <<>>
    /\ LET n == Len(igt.stack)
           top == igt.stack[n]
           attempt == top.attempt
           return(g) == [g EXCEPT !.stack = SubSeq(igt.stack, 1, n - 1)]
           goto(g, pc) == [g EXCEPT !.stack[n].pc = pc]
           retry(g, pc) ==
               [g EXCEPT !.stack =
                   Append([igt.stack EXCEPT ![n].pc = pc],
                          [fn |-> "connect", pc |-> "start", attempt |-> attempt + 1,
                           seq2 |-> <<>>, checked |-> <<>>])]
           entered == [igt EXCEPT !.sent_seqs = {},
                                  !.uploaded = {},
                                  !.attempts = IF attempt = 0 THEN 1 ELSE @ + 1]
           created == [entered EXCEPT !.fus = TRUE]
       IN  /\ top.fn = "connect"
           /\ \/ /\ top.pc = "start"
                 /\ \/ IGTStep("FUSSystem", attempt, "SystemExit", entered)
                    \/ IGTStep("loadConfig", attempt, "SystemExit", created)
                    \/ IGTStep("waitConnection", attempt, NoExc, goto(created, "check"))
                    \/ \E still_connected \in BOOLEAN :
                           IF attempt < 5
                           THEN IGTStep("connect", attempt, NoExc,
                                        retry(disconnect(created, still_connected), "check"))
                           ELSE IGTStep("connect", attempt, "SystemExit", created)
              \/ /\ top.pc = "check"
                 /\ \/ IGTStep("isConnected", TRUE, NoExc,
                               return([igt EXCEPT !.connected = TRUE]))
                    \/ IGTStep("gen", attempt, "SystemExit", [igt EXCEPT !.connected = TRUE])
                    \/ \E still_connected \in BOOLEAN :
                           LET failed == [igt EXCEPT !.connected = FALSE]
                           IN  IF attempt < 5
                               THEN IGTStep("isConnected", FALSE, NoExc,
                                            retry(disconnect(failed, still_connected), "done"))
                               ELSE IGTStep("isConnected", FALSE, NoExc, return(failed))
              \/ /\ top.pc = "done"
                 /\ IGTStep("connect", attempt, NoExc, return(igt))

\* connect(attempt): "start" runs up to waitConnection(), "check" is the
\* fus.isConnected() block, "done" the end of the method after its retry
ConnectStep ==
    /\ igt.stack # <<>>
    /\ LET n == Len(igt.stack)
           top == igt.stack[n]
           attempt == top.attempt
           return(g) == [g EXCEPT !.stack = SubSeq(igt.stack, 1, n - 1)]
           goto(g, pc) == [g EXCEPT !.stack[n].pc = pc]
           retry(g, pc) ==
               [g EXCEPT !.stack =
                   Append([igt.stack EXCEPT ![n].pc = pc],
                          [fn |-> "connect", pc |-> "start", attempt |-> attempt + 1,
                           seq2 |-> <<>>, checked |-> <<>>])]
           entered == [igt EXCEPT !.sent_seqs = {},
                                  !.uploaded = {},
                                  !.attempts = IF attempt = 0 THEN 1 ELSE @ + 1]
           created == [entered EXCEPT !.fus = TRUE]
       IN  /\ top.fn = "connect"
           /\ \/ /\ top.pc = "start"
                 /\ \/ IGTStep("FUSSystem", attempt, "SystemExit", entered)
                    \/ IGTStep("loadConfig", attempt, "SystemExit", created)
                    \/ IGTStep("waitConnection", attempt, NoExc, goto(created, "check"))
                    \/ \E still_connected \in BOOLEAN :
                           IF attempt < 5
                           THEN IGTStep("connect", attempt, NoExc,
                                        retry(disconnect(created, still_connected), "check"))
                           ELSE IGTStep("connect", attempt, "SystemExit", created)
              \/ /\ top.pc = "check"
                 /\ \/ IGTStep("isConnected", TRUE, NoExc,
                               return([igt EXCEPT !.connected = TRUE]))
                    \/ IGTStep("gen", attempt, "SystemExit", [igt EXCEPT !.connected = TRUE])
                    \/ \E still_connected \in BOOLEAN :
                           LET failed == [igt EXCEPT !.connected = FALSE]
                           IN  IF attempt < 5
                               THEN IGTStep("isConnected", FALSE, NoExc,
                                            retry(disconnect(failed, still_connected), "done"))
                               ELSE IGTStep("isConnected", FALSE, "SystemExit", failed)
              \/ /\ top.pc = "done"
                 /\ IGTStep("connect", attempt, NoExc, return(igt))

\* a send_sequence that validates seq1 only
SendSequenceStep_first_only ==
    /\ igt.stack # <<>>
    /\ LET n == Len(igt.stack)
           top == igt.stack[n]
           seq_num == seq.seq_num
           checked == top.checked[1]
           return(g) == [g EXCEPT !.stack = SubSeq(igt.stack, 1, n - 1)]
           ramped ==
               /\ seq.timing_param.pulse_ramp_shape # RAMP_SHAPES[1]
               /\ Greater(seq.ampl, Zero)
       IN  /\ top.fn = "send_sequence"
           /\ IF checked.exc # NoExc
              THEN IGTStep("validate_sequence", seq_num, checked.exc, igt)
              ELSE IF checked.error_messages # <<>>
              THEN IGTStep("validate_sequence", seq_num, "SystemExit", igt)
              ELSE IF ~igt.connected
              THEN IGTStep("send_sequence", seq_num, NoExc,
                           [igt EXCEPT !.stack =
                               Append(igt.stack,
                                      [fn |-> "connect", pc |-> "start", attempt |-> 0,
                                       seq2 |-> <<>>, checked |-> <<>>])])
              ELSE IF ramped /\ _apply_ramping(seq).exc # NoExc
              THEN IGTStep("_apply_ramping", seq_num, _apply_ramping(seq).exc, igt)
              ELSE \/ IGTStep("sendSequence", seq_num, NoExc,
                              return([igt EXCEPT !.sent_seqs = @ \cup {seq_num},
                                                 !.uploaded = @ \cup {seq_num}]))
                   \/ IGTStep("sendSequence", seq_num, "RuntimeError", igt)

\* send_sequence(seq1): validation, then the upload when connected, else
\* connect() and send_sequence(seq1) again
SendSequenceStep ==
    /\ igt.stack # <<>>
    /\ LET n == Len(igt.stack)
           top == igt.stack[n]
           seq_num == seq.seq_num
           checked == top.checked
           refused == {i \in DOMAIN checked :
                          \/ checked[i].exc # NoExc
                          \/ checked[i].error_messages # <<>>}
           first == CHOOSE i \in refused : \A k \in refused : i <= k
           return(g) == [g EXCEPT !.stack = SubSeq(igt.stack, 1, n - 1)]
           ramped ==
               /\ seq.timing_param.pulse_ramp_shape # RAMP_SHAPES[1]
               /\ Greater(seq.ampl, Zero)
       IN  /\ top.fn = "send_sequence"
           /\ IF refused # {}
              THEN IGTStep("validate_sequence", seq_num,
                           IF checked[first].exc # NoExc
                           THEN checked[first].exc
                           ELSE "SystemExit",
                           igt)
              ELSE IF ~igt.connected
              THEN IGTStep("send_sequence", seq_num, NoExc,
                           [igt EXCEPT !.stack =
                               Append(igt.stack,
                                      [fn |-> "connect", pc |-> "start", attempt |-> 0,
                                       seq2 |-> <<>>, checked |-> <<>>])])
              ELSE IF ramped /\ _apply_ramping(seq).exc # NoExc
              THEN IGTStep("_apply_ramping", seq_num, _apply_ramping(seq).exc, igt)
              ELSE \/ IGTStep("sendSequence", seq_num, NoExc,
                              return([igt EXCEPT !.sent_seqs = @ \cup {seq_num},
                                                 !.uploaded = @ \cup {seq_num}]))
                   \/ IGTStep("sendSequence", seq_num, "RuntimeError", igt)

\* an execute_sequence that starts the buffer whenever the object is connected
ExecuteSequenceStep_without_upload ==
    /\ igt.stack # <<>>
    /\ LET n == Len(igt.stack)
           top == igt.stack[n]
           seq_num == seq.seq_num
           return(g) == [g EXCEPT !.stack = SubSeq(igt.stack, 1, n - 1)]
           call(fn, pc) ==
               [igt EXCEPT !.stack =
                   Append([igt.stack EXCEPT ![n].pc = pc],
                          [fn |-> fn, pc |-> "start", attempt |-> 0,
                           seq2 |-> IF fn = "connect" THEN <<>> ELSE top.seq2,
                           checked |-> IF fn = "connect" THEN <<>> ELSE top.checked])]
       IN  /\ top.fn = "execute_sequence"
           /\ IF top.pc = "send"
              THEN IGTStep("execute_sequence", seq_num, NoExc, call("send_sequence", "start"))
              ELSE IF ~igt.connected
              THEN IGTStep("execute_sequence", seq_num, NoExc, call("connect", "send"))
              ELSE \/ IGTStep("startSequence", seq_num, NoExc, return(igt))
                   \/ IGTStep("prepareSequence", seq_num, "SystemExit", igt)

\* execute_sequence(seq1): "start" is the entry of the method, "send" the
\* send_sequence(seq1) that follows connect()
ExecuteSequenceStep ==
    /\ igt.stack # <<>>
    /\ LET n == Len(igt.stack)
           top == igt.stack[n]
           seq_num == seq.seq_num
           return(g) == [g EXCEPT !.stack = SubSeq(igt.stack, 1, n - 1)]
           call(fn, pc) ==
               [igt EXCEPT !.stack =
                   Append([igt.stack EXCEPT ![n].pc = pc],
                          [fn |-> fn, pc |-> "start", attempt |-> 0,
                           seq2 |-> IF fn = "connect" THEN <<>> ELSE top.seq2,
                           checked |-> IF fn = "connect" THEN <<>> ELSE top.checked])]
       IN  /\ top.fn = "execute_sequence"
           /\ IF top.pc = "send"
              THEN IGTStep("execute_sequence", seq_num, NoExc, call("send_sequence", "start"))
              ELSE IF ~igt.connected
              THEN IGTStep("execute_sequence", seq_num, NoExc, call("connect", "send"))
              ELSE IF seq_num \notin igt.sent_seqs
              THEN IGTStep("execute_sequence", seq_num, NoExc, call("send_sequence", "start"))
              ELSE \/ IGTStep("startSequence", seq_num, NoExc, return(igt))
                   \/ IGTStep("prepareSequence", seq_num, "SystemExit", igt)

\* wait_for_trigger(seq1): as execute_sequence, with the trigger option of the
\* sequence deciding the flag
WaitForTriggerStep ==
    /\ igt.stack # <<>>
    /\ LET n == Len(igt.stack)
           top == igt.stack[n]
           seq_num == seq.seq_num
           return(g) == [g EXCEPT !.stack = SubSeq(igt.stack, 1, n - 1)]
           call(fn, pc) ==
               [igt EXCEPT !.stack =
                   Append([igt.stack EXCEPT ![n].pc = pc],
                          [fn |-> fn, pc |-> "start", attempt |-> 0,
                           seq2 |-> IF fn = "connect" THEN <<>> ELSE top.seq2,
                           checked |-> IF fn = "connect" THEN <<>> ELSE top.checked])]
       IN  /\ top.fn = "wait_for_trigger"
           /\ IF top.pc = "send"
              THEN IGTStep("wait_for_trigger", seq_num, NoExc, call("send_sequence", "start"))
              ELSE IF ~igt.connected
              THEN IGTStep("wait_for_trigger", seq_num, NoExc, call("connect", "send"))
              ELSE IF seq_num \notin igt.sent_seqs
              THEN IGTStep("wait_for_trigger", seq_num, NoExc, call("send_sequence", "start"))
              ELSE IF seq.trigger_option \notin {TRIGGER_OPTIONS[2], TRIGGER_OPTIONS[3]}
              THEN IGTStep("wait_for_trigger", seq_num, "SystemExit", igt)
              ELSE \/ IGTStep("startSequence", seq_num, NoExc, return(igt))
                   \/ IGTStep("prepareSequence", seq_num, "SystemExit", igt)

\* the methods of the IGT object and, between two of their calls, the
\* setters of the buffer number and the trigger option of the sequence
NextIGT ==
    \/ IGTCall
    \/ Disconnect
    \/ ConnectStep
    \/ SendSequenceStep
    \/ ExecuteSequenceStep
    \/ WaitForTriggerStep
    \/ igt.stack = <<>> /\ calls < MaxIGTCalls /\ SetSeqNum
    \/ igt.stack = <<>> /\ calls < MaxIGTCalls /\ SetTriggerOption

SpecIGT == InitIGT /\ [][NextIGT]_vars

\* one more call on an IGT object that is not connected: a new object whose
\* connect() failed before a FUSSystem existed, an object disconnected after
\* connect(), and one disconnected after buffer 0 was sent
InitTermination ==
    /\ seq \in IGTSequences
    /\ \/ /\ igt = [IGT_init EXCEPT !.attempts = 1]
          /\ outcome = [op |-> "FUSSystem", arg |-> 0, exc |-> "SystemExit"]
       \/ /\ \E sent_seqs \in {{}, {Zero}} :
                 igt = [IGT_init EXCEPT !.fus = TRUE, !.attempts = 1,
                                        !.sent_seqs = sent_seqs, !.uploaded = sent_seqs]
          /\ outcome = [op |-> "disconnect", arg |-> None, exc |-> NoExc]
    /\ calls = MaxIGTCalls - 1
    /\ result = None

\* the interpreter goes on with the running call until it ends
SpecTermination ==
    /\ InitTermination
    /\ [][NextIGT]_vars
    /\ WF_vars(ConnectStep \/ SendSequenceStep \/ ExecuteSequenceStep \/ WaitForTriggerStep)

(***************************************************************************)
(* Writing a timing field back: seq.x = seq.x runs the getter of x and     *)
(* hands its value to the setter of x.  validate_value compares the value  *)
(* with 0 after the isinstance test, so a None read from a repetition      *)
(* field ends the call with TypeError.                                     *)
(***************************************************************************)
WriteBackTiming ==
    LET read(x) == seq.timing_param[x]
        write(x, r) ==
            Call(x, read(x), IF read(x) = None THEN Raise(self, "TypeError") ELSE r)
    IN  \/ write("pulse_dur", pulse_dur_setter(self, read("pulse_dur")))
        \/ write("pulse_rep_int", pulse_rep_int_setter(self, read("pulse_rep_int")))
        \/ write("pulse_ramp_dur", pulse_ramp_dur_setter(self, read("pulse_ramp_dur")))
        \/ write("pulse_train_dur", pulse_train_dur_setter(self, read("pulse_train_dur")))
        \/ write("pulse_train_rep_int",
                 pulse_train_rep_int_setter(self, read("pulse_train_rep_int")))
        \/ write("pulse_train_rep_dur",
                 pulse_train_rep_dur_setter(self, read("pulse_train_rep_dur")))

\* the timing setters with values of the caller and with the values read
NextWriteBack ==
    \/ NextTiming
    \/ WriteBackTiming

SpecWriteBack == Init /\ [][NextWriteBack]_vars

(***************************************************************************)
(* The sequence that send_sequence defines on a connected object           *)
(* (igt/igt_ds.py): the pulse of _define_pulse, the pulse train of         *)
(* _define_pulse_train and the number of pulse train repetitions.  The     *)
(* phases of the pulse depend on the transducer's steering table and are   *)
(* not part of the record.                                                 *)
(***************************************************************************)

\* round(x, 1): the values that Python's round can return for the float
\* nearest to x.  A tie x = (2q+1)/20 is an exact float only when 5 divides
\* 2q+1 and then goes to the even tenth; any other tie is a float slightly
\* below or above it and goes to the tenth on that side.
round1(x) ==
    IF x[2] >= -1 THEN {x}
    ELSE LET k == Pow10(-x[2] - 1)
             q == Abs(x[1]) \div k
             r == Abs(x[1]) % k
             down == D(Sign(x[1]) * q, -1)
             up == D(Sign(x[1]) * (q + 1), -1)
         IN  IF 2 * r < k THEN {down}
             ELSE IF 2 * r > k THEN {up}
             ELSE IF (2 * q + 1) % 5 = 0
                  THEN IF q % 2 = 0 THEN {down} ELSE {up}
             ELSE {down, up}

\* _define_pulse: duration [ms], delay [ms] and frequency [Hz] of the pulse
_define_pulse(sequence) ==
    LET tp == sequence.timing_param
    IN  {[duration |-> tp.pulse_dur,
          delay |-> d,
          frequency |-> math_floor(Mul(sequence.oper_freq, <<1, 3>>))] :
             d \in round1(Sub(tp.pulse_rep_int, tp.pulse_dur))}

\* _define_pulse_train: the number of pulses of a train and the delay
\* between trains [ms]
_define_pulse_train(sequence) ==
    LET tp == sequence.timing_param
    IN  [n_pulse_train |-> math_floor(Div(tp.pulse_train_dur, tp.pulse_rep_int)),
         pulse_train_delay |-> Sub(tp.pulse_train_rep_int, tp.pulse_train_dur)]

\* send_sequence(seq1) on a connected object up to the upload: the sequence
\* is validated, the call exits on a message, and the pulse, the pulse train
\* and the repetitions are derived
DefineSequence ==
    /\ \E v \in {IGT_validate_sequence(seq)} :
           IF v.exc # NoExc \/ v.error_messages # <<>>
           THEN /\ outcome' = [op |-> "send_sequence", arg |-> None,
                               exc |-> IF v.exc # NoExc THEN v.exc ELSE "SystemExit"]
                /\ result' = None
           ELSE /\ outcome' = [op |-> "send_sequence", arg |-> None, exc |-> NoExc]
                /\ \E pulse \in _define_pulse(seq) :
                       result' =
                           [pulse |-> pulse,
                            pulse_train |-> _define_pulse_train(seq),
                            n_pulse_train_rep |->
                                math_floor(Div(seq.timing_param.pulse_train_rep_dur,
                                               seq.timing_param.pulse_train_rep_int))]
    /\ UNCHANGED <<seq, calls, igt>>

\* a sequence built by the timing setters is validated and defined
SpecDefine == InitValidate /\ [][IGTValidateSequence \/ DefineSequence]_vars

(***************************************************************************)
(* Properties                                                              *)
(***************************************************************************)

\* the last call was op and returned normally
Returned(op) == outcome.op = op /\ outcome.exc = NoExc

\* the last call was op and ended with SystemExit
Exited(op) == outcome.op = op /\ outcome.exc = "SystemExit"

\* P2A_a*(p*1e6*eq_factor) + P2A_b with the stored factor and coefficients
DerivedAmpl(p) ==
    Add(Mul(P2A_a(seq), Mul(Mul(p, <<1, 6>>), seq.eq_factor)), P2A_b(seq))

\* amplitude_from_pressure of the specification (4.2): the derived amplitude
\* clamped to [0, 100]
amplitude_from_pressure(p) ==
    IF Greater(DerivedAmpl(p), <<1, 2>>) THEN <<1, 2>>
    ELSE IF Less(DerivedAmpl(p), Zero) THEN Zero
    ELSE DerivedAmpl(p)

\* C1: in every state reached through the setters the stored pressure is at
\* most the maximum allowed pressure, and a press request above the maximum
\* ends with SystemExit.
C1_PressWithinCeiling ==
    /\ Leq(seq.press, MAX_ALLOWED_PRESSURE)
    /\ (outcome.op = "press" /\ Greater(outcome.arg, MAX_ALLOWED_PRESSURE))
           => outcome.exc = "SystemExit"

\* a valid voltage on a calibrated combination whose back-computed pressure is
\* above the maximum: _calc_press exits and the stored pressure stays below
C1_Witness ==
    /\ Exited("volt")
    /\ Geq(outcome.arg, Zero)
    /\ in_equip_combos(seq)
    /\ Leq(seq.press, MAX_ALLOWED_PRESSURE)

\* C2: on a calibrated combination, a press request p within the ceiling whose
\* derived amplitude is above 100 returns with the stored amplitude exactly
\* 100 and a stored pressure at most p.
C2_Saturation ==
    (/\ outcome.op = "press"
     /\ in_equip_combos(seq)
     /\ Geq(outcome.arg, Zero)
     /\ Leq(outcome.arg, MAX_ALLOWED_PRESSURE)
     /\ Greater(DerivedAmpl(outcome.arg), <<1, 2>>))
        => /\ outcome.exc = NoExc
           /\ seq.ampl = <<1, 2>>
           /\ Leq(seq.press, outcome.arg)

C2_Witness ==
    /\ Returned("press")
    /\ in_equip_combos(seq)
    /\ Greater(DerivedAmpl(outcome.arg), <<1, 2>>)
    /\ seq.ampl = <<1, 2>>
    /\ Less(seq.press, outcome.arg)

\* the stored focus is the limit shared by the two intervals, after a focus
\* setter that returned on a calibrated combination
AtSharedBoundary ==
    /\ Returned("focus_wrt_exit_plane") \/ Returned("focus_wrt_mid_bowl")
    /\ in_equip_combos(seq)
    /\ conv(seq).F2EQF1_up_lim = conv(seq).F2EQF2_low_lim
    /\ seq.focus_wrt_exit_plane = conv(seq).F2EQF1_up_lim

\* C3 (as stated): a focus exactly at the shared limit of the two intervals
\* gets the equalization factor of interval 2's polynomial.
C3_BoundaryInterval2 ==
    AtSharedBoundary
        => seq.eq_factor = Poly(conv(seq).F2EQF2_a, seq.focus_wrt_exit_plane)

\* C3 (amended): a focus exactly at the shared limit of the two intervals gets
\* the equalization factor of interval 1's polynomial, whose interval is
\* closed at its upper limit.
C3_BoundaryInterval1 ==
    AtSharedBoundary
        => seq.eq_factor = Poly(conv(seq).F2EQF1_a, seq.focus_wrt_exit_plane)

\* at the shared limit the two polynomials give different factors and the
\* stored one is interval 1's
C3_Witness ==
    /\ AtSharedBoundary
    /\ Poly(conv(seq).F2EQF1_a, seq.focus_wrt_exit_plane)
           # Poly(conv(seq).F2EQF2_a, seq.focus_wrt_exit_plane)
    /\ seq.eq_factor = Poly(conv(seq).F2EQF1_a, seq.focus_wrt_exit_plane)

\* the last call computed the equalization factor at the stored focus: a
\* focus setter given a valid number, or an equipment setter, with a
\* calibrated combination selected
EqFactorComputed ==
    /\ in_equip_combos(seq)
    /\ \/ outcome.op \in {"driving_sys", "transducer"}
       \/ /\ outcome.op \in {"focus_wrt_exit_plane", "focus_wrt_mid_bowl"}
          /\ Geq(outcome.arg, Zero)

\* C4: the computation of the equalization factor has exactly one outcome for
\* a focus f: interval 1's polynomial iff low1 <= f <= high1, otherwise
\* interval 2's iff low2 < f <= high2, otherwise SystemExit; with a shared
\* limit (high1 = low2) it exits exactly for f < low1 or f > high2.
C4_Partition ==
    EqFactorComputed =>
        LET f == seq.focus_wrt_exit_plane
            c == conv(seq)
            in1 == Leq(c.F2EQF1_low_lim, f) /\ Leq(f, c.F2EQF1_up_lim)
            in2 == Less(c.F2EQF2_low_lim, f) /\ Leq(f, c.F2EQF2_up_lim)
        IN  /\ in1 => outcome.exc = NoExc /\ seq.eq_factor = Poly(c.F2EQF1_a, f)
            /\ (~in1 /\ in2)
                   => outcome.exc = NoExc /\ seq.eq_factor = Poly(c.F2EQF2_a, f)
            /\ (~in1 /\ ~in2) => outcome.exc = "SystemExit"
            /\ c.F2EQF1_up_lim = c.F2EQF2_low_lim
                   => (outcome.exc = "SystemExit"
                          <=> Less(f, c.F2EQF1_low_lim) \/ Greater(f, c.F2EQF2_up_lim))

\* a focus above interval 2 on a calibrated combination: the call exited
C4_Witness ==
    /\ EqFactorComputed
    /\ Greater(seq.focus_wrt_exit_plane, conv(seq).F2EQF2_up_lim)
    /\ outcome.exc = "SystemExit"

\* C5: after a press setter that returned with value p, the stored amplitude
\* is amplitude_from_pressure of p and the stored equalization factor, and the
\* stored voltage is (amplitude - V2A_b)/V2A_a; after a volt setter that
\* returned with value v, the stored amplitude is V2A_a*v + V2A_b.
C5_PowerConsistency ==
    /\ Returned("press")
           => /\ in_equip_combos(seq)
              /\ seq.ampl = amplitude_from_pressure(outcome.arg)
              /\ seq.volt = Div(Sub(seq.ampl, V2A_b(seq)), V2A_a(seq))
    /\ Returned("volt")
           => seq.ampl = Add(Mul(V2A_a(seq), outcome.arg), V2A_b(seq))

\* a press setter that returned with an amplitude strictly inside (0, 100)
C5_Witness ==
    /\ Returned("press")
    /\ Greater(seq.ampl, Zero)
    /\ Less(seq.ampl, <<1, 2>>)
    /\ seq.volt = Div(Sub(seq.ampl, V2A_b(seq)), V2A_a(seq))

\* C6: after a power setter that returned, the representations that do not
\* apply to the manufacturer are zero: global_power for IGT; amplitude,
\* pressure and voltage for Sonic Concepts.
C6_InapplicableZero ==
    (/\ outcome.op \in {"global_power", "ampl", "press", "volt"}
     /\ outcome.exc = NoExc)
        => /\ DsManufacturer(seq.driving_sys) = IGT => seq.global_power = Zero
           /\ DsManufacturer(seq.driving_sys) = SONIC_CONCEPTS
                  => seq.ampl = Zero /\ seq.press = Zero /\ seq.volt = Zero

\* |a|
AbsD(a) == IF a[1] < 0 THEN Neg(a) ELSE a

\* a and b agree within floating-point tolerance (a relative 0.001)
Close(a, b) ==
    Leq(AbsD(Sub(a, b)),
        Mul(<<1, -3>>, IF Less(AbsD(a), AbsD(b)) THEN AbsD(b) ELSE AbsD(a)))

\* the two focus values of s agree under the selected combination
FocusConsistent(s) ==
    IF s.ds_tran_combo \in DS_TRAN_COMBOS
    THEN Close(s.focus_wrt_mid_bowl,
               Add(Mul(CombConfig(s.ds_tran_combo).DF2SF_a, s.focus_wrt_exit_plane),
                   CombConfig(s.ds_tran_combo).DF2SF_b))
    ELSE Close(s.focus_wrt_mid_bowl,
               Add(s.focus_wrt_exit_plane, TranConfig(s.transducer).exit_plane_dist))

\* C7: the two stored focus values stay consistent through the setters
\* driving_sys, transducer, focus_wrt_exit_plane and focus_wrt_mid_bowl: a call
\* of one of them that returns takes consistent values to consistent values
\* (mid bowl = DF2SF_a*exit + DF2SF_b when calibrated, exit + exit_plane_dist
\* when not).
C7_FocusConsistent ==
    [][(/\ FocusConsistent(seq)
        /\ outcome'.exc = NoExc
        /\ outcome'.op \in {"driving_sys", "transducer",
                            "focus_wrt_exit_plane", "focus_wrt_mid_bowl"})
           => FocusConsistent(seq')]_vars

\* C8: a setter call that fails leaves every field as it was before the call.
C8_FailureAtomic == [][outcome'.exc # NoExc => seq' = seq]_vars

\* C9: whenever the selected combination is calibrated, the stored
\* equalization factor is the piecewise polynomial of the combination at the
\* stored exit-plane focus.
C9_EqFactorCurrent ==
    in_equip_combos(seq) =>
        LET f == seq.focus_wrt_exit_plane
            c == CombConfig(seq.ds_tran_combo)
        IN  \/ /\ Leq(c.F2EQF1_low_lim, f) /\ Leq(f, c.F2EQF1_up_lim)
               /\ seq.eq_factor = Poly(c.F2EQF1_a, f)
            \/ /\ ~(Leq(c.F2EQF1_low_lim, f) /\ Leq(f, c.F2EQF1_up_lim))
               /\ Less(c.F2EQF2_low_lim, f) /\ Leq(f, c.F2EQF2_up_lim)
               /\ seq.eq_factor = Poly(c.F2EQF2_a, f)

\* C10: after the n_triggers setter returned, pulse_train_rep_int and
\* pulse_train_rep_dur both equal pulse_train_dur.
C10_TriggersAlignRepetition ==
    Returned("n_triggers")
        => /\ seq.timing_param.pulse_train_rep_int = seq.timing_param.pulse_train_dur
           /\ seq.timing_param.pulse_train_rep_dur = seq.timing_param.pulse_train_dur

\* C11: on a sequence whose driving system is not of Sonic Concepts, the
\* global_power setter ends with SystemExit for every value above 0 and
\* returns for the value 0.
C11_GlobalPowerGating ==
    (outcome.op = "global_power" /\ DsManufacturer(seq.driving_sys) # SONIC_CONCEPTS)
        => /\ Greater(outcome.arg, Zero) => outcome.exc = "SystemExit"
           /\ outcome.arg = Zero => outcome.exc = NoExc

\* a positive global power refused on an IGT driving system
C11_Witness ==
    /\ Exited("global_power")
    /\ DsManufacturer(seq.driving_sys) = IGT
    /\ Greater(outcome.arg, Zero)

\* C12: while the selected combination is not a calibrated one, every call of
\* the press setter and of the volt setter ends with SystemExit, the value 0
\* included; such a call returns only on a calibrated combination.
C12_UncalibratedPressVolt ==
    (outcome.op \in {"press", "volt"} /\ seq.ds_tran_combo \notin DS_TRAN_COMBOS)
        => outcome.exc = "SystemExit"

\* the pressure 0 refused on a combination without calibration
C12_Witness ==
    /\ Exited("press")
    /\ outcome.arg = Zero
    /\ seq.ds_tran_combo \notin DS_TRAN_COMBOS

\* f lies outside [min_foc, max_foc] of the selected transducer
OutsideFocusRange(f) ==
    \/ Less(f, TranConfig(seq.transducer).min_foc)
    \/ Greater(f, TranConfig(seq.transducer).max_foc)

\* C13: while the selected combination is not calibrated,
\* focus_wrt_exit_plane = f ends with SystemExit exactly when f is below
\* min_foc or above max_foc of the transducer, and focus_wrt_mid_bowl = b
\* exactly when b - exit_plane_dist is; a call that returns stores the value
\* and derives the other focus by the exit-plane offset.
C13_UncalibratedFocusRange ==
    seq.ds_tran_combo \notin DS_TRAN_COMBOS =>
        /\ outcome.op = "focus_wrt_exit_plane" =>
               /\ outcome.exc = "SystemExit" <=> OutsideFocusRange(outcome.arg)
               /\ outcome.exc = NoExc =>
                      /\ seq.focus_wrt_exit_plane = outcome.arg
                      /\ seq.focus_wrt_mid_bowl =
                             Add(outcome.arg, TranConfig(seq.transducer).exit_plane_dist)
        /\ outcome.op = "focus_wrt_mid_bowl" =>
               /\ outcome.exc = "SystemExit" <=>
                      OutsideFocusRange(
                          Sub(outcome.arg, TranConfig(seq.transducer).exit_plane_dist))
               /\ outcome.exc = NoExc =>
                      /\ seq.focus_wrt_mid_bowl = outcome.arg
                      /\ seq.focus_wrt_exit_plane =
                             Sub(outcome.arg, TranConfig(seq.transducer).exit_plane_dist)

\* a bowl focus accepted on an uncalibrated pair with a non-zero exit-plane
\* distance
C13_Witness ==
    /\ Returned("focus_wrt_mid_bowl")
    /\ seq.ds_tran_combo \notin DS_TRAN_COMBOS
    /\ TranConfig(seq.transducer).exit_plane_dist # Zero
    /\ seq.focus_wrt_exit_plane =
           Sub(outcome.arg, TranConfig(seq.transducer).exit_plane_dist)

\* the call out on the object post reached _calc_ampl: the combination is
\* calibrated, the value passed validation and the equalization factor was
\* computed
ReachedCalcAmpl(post, out) ==
    /\ post.ds_tran_combo \in DS_TRAN_COMBOS
    /\ \/ /\ out.op = "press"
          /\ Geq(out.arg, Zero)
          /\ Leq(out.arg, MAX_ALLOWED_PRESSURE)
       \/ /\ out.op \in {"focus_wrt_exit_plane", "focus_wrt_mid_bowl"}
          /\ Geq(out.arg, Zero)
          /\ InInterval1(post) \/ InInterval2(post)
       \/ /\ out.op \in {"driving_sys", "transducer"}
          /\ InInterval1(post) \/ InInterval2(post)

\* the amplitude that call derived: from the requested pressure in the press
\* setter, from the pressure stored before the call in the others
AmplDerivedBy(pre, post, out) ==
    Add(Mul(P2A_a(post),
            Mul(Mul(IF out.op = "press" THEN out.arg ELSE pre.press, <<1, 6>>),
                post.eq_factor)),
        P2A_b(post))

\* the call returned with the amplitude a and with the pressure and the
\* voltage computed back from a
ReturnedClampedTo(post, out, a) ==
    /\ out.exc = NoExc
    /\ post.ampl = a
    /\ post.press = Mul(Div(Sub(a, P2A_b(post)), Mul(P2A_a(post), post.eq_factor)),
                        <<1, -6>>)
    /\ post.volt = Div(Sub(a, V2A_b(post)), V2A_a(post))

\* C14: a press, focus or equipment setter call on a calibrated combination
\* that derives an amplitude above 100 or below 0 returns normally, with the
\* amplitude 100 or 0 and with pressure and voltage computed back from it.
C14_SaturationRecovered ==
    [][ReachedCalcAmpl(seq', outcome') =>
           /\ Greater(AmplDerivedBy(seq, seq', outcome'), <<1, 2>>)
                  => ReturnedClampedTo(seq', outcome', <<1, 2>>)
           /\ Less(AmplDerivedBy(seq, seq', outcome'), Zero)
                  => ReturnedClampedTo(seq', outcome', Zero)]_vars

\* a validator was called on the sequence
Validated == outcome.op \in {"validate_sequence", "IGT.validate_sequence"}

\* the list the validator returned holds the message msg
Reports(msg) == \E i \in DOMAIN result : result[i] = msg

\* a is a whole multiple of b, in exact arithmetic on the decimal digits
WholeMultiple(a, b) ==
    LET x == IF a[2] < b[2] THEN a[2] ELSE b[2]
    IN  (a[1] * Pow10(a[2] - x)) % (b[1] * Pow10(b[2] - x)) = 0

\* C15: a validator reports the pulse-count violation exactly when
\* pulse_train_dur is not a whole multiple of pulse_rep_int, and the
\* pulse-train-count violation exactly when pulse_train_rep_dur is not a whole
\* multiple of pulse_train_rep_int (the second half is stated for sequences
\* that have both repetition values)
C15_CountRules ==
    Validated =>
        /\ Reports(BaseMessages[1])
               <=> ~WholeMultiple(seq.timing_param.pulse_train_dur,
                                  seq.timing_param.pulse_rep_int)
        /\ (seq.timing_param.pulse_train_rep_dur # None
                /\ seq.timing_param.pulse_train_rep_int # None)
               => (Reports(BaseMessages[2])
                       <=> ~WholeMultiple(seq.timing_param.pulse_train_rep_dur,
                                          seq.timing_param.pulse_train_rep_int))

\* rule i of the six timing rules (specification 4.4) is broken by the timing
\* values tp
RuleBroken(tp, i) ==
    CASE i = 1 -> ~WholeMultiple(tp.pulse_train_dur, tp.pulse_rep_int)
      [] i = 2 -> ~WholeMultiple(tp.pulse_train_rep_dur, tp.pulse_train_rep_int)
      [] i = 3 -> ~Leq(tp.pulse_dur, tp.pulse_rep_int)
      [] i = 4 -> ~Leq(tp.pulse_rep_int, tp.pulse_train_dur)
      [] i = 5 -> ~Leq(tp.pulse_train_dur, tp.pulse_train_rep_int)
      [] i = 6 -> ~Leq(tp.pulse_train_rep_int, tp.pulse_train_rep_dur)

\* one message per broken rule among the rules 1..i, in rule order
RECURSIVE BrokenRuleMessages(_, _)
BrokenRuleMessages(tp, i) ==
    IF i = 0 THEN <<>>
    ELSE IF RuleBroken(tp, i) THEN Append(BrokenRuleMessages(tp, i - 1), BaseMessages[i])
    ELSE BrokenRuleMessages(tp, i - 1)

\* C16: a call of validate_sequence evaluates all six rules and returns one
\* message per broken rule in rule order; the list is empty iff both counts
\* are integral and pulse_dur <= pulse_rep_int <= pulse_train_dur <=
\* pulse_train_rep_int <= pulse_train_rep_dur; the sequence is not modified
C16_AllRulesInOrder ==
    [][outcome'.op = "validate_sequence" =>
           /\ outcome'.exc = NoExc
           /\ result' = BrokenRuleMessages(seq.timing_param, 6)
           /\ result' = <<>> <=> \A i \in 1..6 : ~RuleBroken(seq.timing_param, i)
           /\ seq' = seq]_vars

\* C17: IGT.validate_sequence ends as the base validator does and, when it
\* returns, its list is the list of the base validator followed only by device
\* messages, so a sequence rejected by the base rules is rejected by IGT too
C17_IGTExtendsBase ==
    outcome.op = "IGT.validate_sequence" =>
        LET base == validate_sequence(seq)
            n == Len(base.error_messages)
        IN  /\ outcome.exc = base.exc
            /\ outcome.exc = NoExc =>
                   /\ n <= Len(result)
                   /\ SubSeq(result, 1, n) = base.error_messages
                   /\ \A i \in (n + 1)..Len(result) :
                          \E j \in DOMAIN IGTMessages : result[i] = IGTMessages[j]
                   /\ n > 0 => result # <<>>

\* the IGT validator returned base messages followed by device messages
C17_Witness ==
    /\ outcome.op = "IGT.validate_sequence"
    /\ outcome.exc = NoExc
    /\ Len(validate_sequence(seq).error_messages) >= 2
    /\ Len(result) >= Len(validate_sequence(seq).error_messages) + 2

\* the timing values tp fall under device case i of the IGT system
\* (specification 4.4): 1 pulse shorter than 1 us, 2 pulse repetition interval
\* shorter than 170 us, 3 active ramping leaving less than 70 us between
\* ramp-up and ramp-down, 4 more than 64 pulses in a pulse train
DeviceCase(tp, i) ==
    CASE i = 1 -> Less(tp.pulse_dur, <<1, -3>>)
      [] i = 2 -> Less(tp.pulse_rep_int, <<17, -2>>)
      [] i = 3 -> /\ Greater(tp.pulse_ramp_dur, Zero)
                  /\ tp.pulse_ramp_shape # RAMP_SHAPES[1]
                  /\ Less(Sub(tp.pulse_dur, Mul(tp.pulse_ramp_dur, <<2, 0>>)), <<7, -2>>)
      [] i = 4 -> Greater(tp.pulse_train_dur, Mul(tp.pulse_rep_int, <<64, 0>>))

\* the message of device case i
DeviceMessage(i) == IF i = 4 THEN IGTMessages[5] ELSE IGTMessages[i]

\* C18: IGT.validate_sequence reports the violation of a device case exactly
\* when the sequence falls under it, and no other device violation
C18_DeviceRules ==
    outcome.op = "IGT.validate_sequence" =>
        /\ \A i \in 1..4 : Reports(DeviceMessage(i)) <=> DeviceCase(seq.timing_param, i)
        /\ ~Reports(IGTMessages[4])

\* floor(d / 0.005) = floor(200 * d), in exact arithmetic on the digits of d
StepsAtFinest(d) ==
    IF d[2] >= 0 THEN 200 * d[1] * Pow10(d[2]) ELSE (200 * d[1]) \div Pow10(-d[2])

\* C19: the ramp-up and ramp-down tables of _apply_ramping hold at most 1023
\* samples each; when floor(ramp_dur/0.005) <= 1023 the resolution is 0.005 ms
\* and the tables hold that many samples, otherwise the resolution is
\* ramp_dur/1023
C19_RampTablesCapped ==
    outcome.op = "_apply_ramping" =>
        /\ outcome.exc = NoExc
        /\ Len(result.ramp_up) <= max_ramp_steps
        /\ Len(result.ramp_down) <= max_ramp_steps
        /\ result.ramp_up_res = result.ramp_down_res
        /\ IF StepsAtFinest(seq.timing_param.pulse_ramp_dur) <= max_ramp_steps
           THEN /\ result.ramp_up_res = <<5, -3>>
                /\ Len(result.ramp_up) = StepsAtFinest(seq.timing_param.pulse_ramp_dur)
                /\ Len(result.ramp_down) = StepsAtFinest(seq.timing_param.pulse_ramp_dur)
           ELSE result.ramp_up_res =
                    Div(seq.timing_param.pulse_ramp_dur, D(max_ramp_steps, 0))

\* a ramp of 5.12 ms, 1024 samples at 0.005 ms, was tabulated at the coarser
\* resolution
C19_Witness ==
    /\ outcome.op = "_apply_ramping"
    /\ outcome.exc = NoExc
    /\ seq.timing_param.pulse_ramp_dur = <<512, -2>>
    /\ StepsAtFinest(seq.timing_param.pulse_ramp_dur) = max_ramp_steps + 1
    /\ Greater(result.ramp_down_res, <<5, -3>>)
    /\ Len(result.ramp_down) = max_ramp_steps

\* _get_ramping_amplitude was called with resolution 1 ms on a linear ramp of
\* 5 ms
LinearFiveByOne ==
    /\ outcome.op = "_get_ramping_amplitude"
    /\ outcome.arg = <<1, 0>>
    /\ seq.timing_param.pulse_ramp_shape = "Linear"
    /\ seq.timing_param.pulse_ramp_dur = <<5, 0>>

\* C20: a linear ramp of 5 ms at resolution 1 ms is synthesized as the five
\* ascending samples 0, 0.25, 0.5, 0.75, 1
C20_LinearExample ==
    LinearFiveByOne =>
        /\ outcome.exc = NoExc
        /\ result = <<Zero, <<25, -2>>, <<5, -1>>, <<75, -2>>, <<1, 0>>>>

\* C20 as stated: the ramp is synthesized as the four samples 0, 0.25, 0.5,
\* 0.75
C20_LinearExampleFourSamples ==
    LinearFiveByOne =>
        /\ outcome.exc = NoExc
        /\ result = <<Zero, <<25, -2>>, <<5, -1>>, <<75, -2>>>>

\* the ramp of the example was synthesized: floor(5/1) samples, the last one 1
C20_Witness ==
    /\ LinearFiveByOne
    /\ Len(result) = 5
    /\ result[5] = <<1, 0>>

\* floor(a / b) for a >= 0 and b > 0, in exact arithmetic on the digits
FloorRatio(a, b) ==
    LET x == IF a[2] < b[2] THEN a[2] ELSE b[2]
    IN  (a[1] * Pow10(a[2] - x)) \div (b[1] * Pow10(b[2] - x))

\* _get_ramping_amplitude returned the envelope of a linear ramp
LinearEnvelope ==
    /\ outcome.op = "_get_ramping_amplitude"
    /\ seq.timing_param.pulse_ramp_shape = "Linear"

\* C21: the envelope of the linear shape has n = floor(ramp_dur / resolution)
\* samples; for n >= 2 the first is 0, the last is 1 and sample i (counted
\* from 0) equals i/(n-1), within 0.00005, a tenth of the smallest spacing
\* of the ramps tabulated
C21_LinearUniform ==
    LinearEnvelope =>
        LET n == FloorRatio(seq.timing_param.pulse_ramp_dur, outcome.arg)
        IN  /\ outcome.exc = NoExc
            /\ Len(result) = n
            /\ n >= 2 =>
                   /\ result[1] = Zero
                   /\ result[n] = <<1, 0>>
                   /\ \A k \in 1..n :
                          Leq(AbsD(Sub(result[k], Div(D(k - 1, 0), D(n - 1, 0)))),
                              <<5, -5>>)

\* a linear ramp of 5.115 ms at resolution 0.5 ms: ten samples, the fourth
\* is 3/9
C21_Witness ==
    /\ LinearEnvelope
    /\ seq.timing_param.pulse_ramp_dur = <<5115, -3>>
    /\ outcome.arg = <<5, -1>>
    /\ Len(result) = 10
    /\ result[4] = <<33333, -5>>

\* C22: the ramp-up table handed to the generator is the ramp-down table
\* reversed element by element; ramp-down ascends, ramp-up descends, and both
\* have the same length and the same resolution
C22_RampUpReversed ==
    (outcome.op = "_apply_ramping" /\ outcome.exc = NoExc) =>
        LET n == Len(result.ramp_down)
        IN  /\ Len(result.ramp_up) = n
            /\ result.ramp_up_res = result.ramp_down_res
            /\ \A i \in 1..n : result.ramp_up[i] = result.ramp_down[n + 1 - i]
            /\ \A i \in 1..(n - 1) :
                   /\ result.ramp_down[i] <= result.ramp_down[i + 1]
                   /\ result.ramp_up[i] >= result.ramp_up[i + 1]
            /\ n >= 2 => result.ramp_down[1] < result.ramp_down[n]

\* a Tukey ramp of 0.1 ms was tabulated: twenty samples, ramp-down from 0 to
\* 100 and ramp-up from 100 to 0
C22_Witness ==
    /\ outcome.op = "_apply_ramping"
    /\ seq.timing_param.pulse_ramp_shape = "Tukey"
    /\ Len(result.ramp_down) = 20
    /\ result.ramp_down[1] = 0
    /\ result.ramp_down[20] = 100
    /\ result.ramp_up[1] = 100
    /\ result.ramp_up[20] = 0
    /\ result.ramp_up[2] = result.ramp_down[19]

\* C23: on a calibrated combination, after focus_wrt_mid_bowl = x has returned,
\* setting focus_wrt_exit_plane to the value read from it leaves
\* focus_wrt_mid_bowl equal to x within tolerance
C23_FocusRoundTrip ==
    [][(/\ Returned("focus_wrt_mid_bowl")
        /\ seq.ds_tran_combo \in DS_TRAN_COMBOS
        /\ outcome'.op = "focus_wrt_exit_plane"
        /\ outcome'.arg = seq.focus_wrt_exit_plane)
           => /\ outcome'.exc = NoExc
              /\ Close(seq'.focus_wrt_mid_bowl, outcome.arg)]_vars

\* the exit-plane focus computed from the bowl focus 40 mm was set again and
\* the bowl focus is 40 mm within tolerance
C23_Witness ==
    /\ Returned("focus_wrt_exit_plane")
    /\ seq.ds_tran_combo \in DS_TRAN_COMBOS
    /\ outcome.arg = Div(Sub(<<4, 1>>, DF2SF_b(seq)), DF2SF_a(seq))
    /\ seq.focus_wrt_exit_plane = outcome.arg
    /\ Close(seq.focus_wrt_mid_bowl, <<4, 1>>)

\* C24: the combination key is the pair of the selected driving system and
\* transducer, and whenever it is a calibrated combination the loaded
\* conversion coefficients are those of that combination
C24_CombinationKeyCurrent ==
    /\ seq.ds_tran_combo = <<seq.driving_sys, seq.transducer>>
    /\ seq.ds_tran_combo \in DS_TRAN_COMBOS =>
           /\ seq.conv_param = seq.ds_tran_combo
           /\ conv(seq) = CombConfig(<<seq.driving_sys, seq.transducer>>)

\* the driving system was switched to the 32-channel system with the
\* coefficients of the 128-channel combination loaded before, and the
\* coefficients are those of the 32-channel combination
C24_Witness ==
    /\ outcome.op = "driving_sys"
    /\ outcome.arg = IGT_DS[3]
    /\ seq.ds_tran_combo = <<IGT_DS[3], IS_TRANS[1]>>
    /\ V2A_a(seq) = IGT_32_ch.v2a_a_coeff
    /\ V2A_a(seq) # IGT_128_ch.v2a_a_coeff
    /\ calls >= 3

\* the setters that refuse zero and negative values
NonZeroSetters ==
    {"pulse_dur", "pulse_rep_int", "pulse_train_dur", "pulse_train_rep_int",
     "pulse_train_rep_dur", "oper_freq", "n_triggers"}

\* the setters that refuse negative values only
NonNegativeSetters == {"pulse_ramp_dur", "seq_num"}

\* the field of the sequence s that the setter op targets
TargetField(s, op) ==
    IF op \in {"oper_freq", "n_triggers", "seq_num"} THEN s[op] ELSE s.timing_param[op]

\* the checks of the generic validator (specification 4.1) that the value
\* fails
FailedChecks(value, nonzero) ==
    {c \in {"zero", "negative"} :
        \/ c = "zero" /\ nonzero /\ value = Zero
        \/ c = "negative" /\ Less(value, Zero)}

\* C25: pulse_dur, pulse_rep_int, pulse_train_dur, pulse_train_rep_int,
\* pulse_train_rep_dur, oper_freq and n_triggers are rejected exactly for zero
\* and negative values, pulse_ramp_dur and seq_num exactly for negative values;
\* the validation reports one message per failed check and a rejected call
\* leaves the targeted field at its previous value
C25_NumericSettersReject ==
    [][outcome'.op \in NonZeroSetters \cup NonNegativeSetters =>
           LET nonzero == outcome'.op \in NonZeroSetters
               failed == FailedChecks(outcome'.arg, nonzero)
               reported == validate_value(outcome'.arg, TRUE, nonzero)
           IN  /\ outcome'.exc = "SystemExit" <=> failed # {}
               /\ outcome'.exc = NoExc <=> failed = {}
               /\ {reported[i] : i \in DOMAIN reported} = failed
               /\ Len(reported) = Cardinality(failed)
               /\ outcome'.exc # NoExc =>
                      TargetField(seq', outcome'.op) = TargetField(seq, outcome'.op)]_vars

\* a pulse duration of zero was refused after the pulse duration had been set
C25_Witness ==
    /\ Exited("pulse_dur")
    /\ outcome.arg = Zero
    /\ seq.timing_param.pulse_dur = <<1, 1>>

\* the elements of the list l
Elements(l) == {l[i] : i \in DOMAIN l}

\* the declared options of the field that the option setter op targets
DeclaredOptions(op) ==
    CASE op = "trigger_option" -> Elements(TRIGGER_OPTIONS)
      [] op = "chosen_power" -> Elements(POWER_OPTIONS)
      [] op = "chosen_focus" -> Elements(FOCUS_OPTIONS)
      [] op = "pulse_ramp_shape" -> Elements(RAMP_SHAPES)

\* the field of the sequence s that the option setter op targets
OptionField(s, op) ==
    IF op = "pulse_ramp_shape" THEN s.timing_param.pulse_ramp_shape ELSE s[op]

\* the same value, compared through the printed form so that the initial None
\* of chosen_power can be compared with an option string
SameOption(a, b) == ToString(a) = ToString(b)

\* every option field of the sequence s holds a declared option, chosen_power
\* possibly None
HoldsDeclaredOptions(s) ==
    /\ s.trigger_option \in Elements(TRIGGER_OPTIONS)
    /\ SameOption(s.chosen_power, None) \/ s.chosen_power \in Elements(POWER_OPTIONS)
    /\ s.chosen_focus \in Elements(FOCUS_OPTIONS)
    /\ s.timing_param.pulse_ramp_shape \in Elements(RAMP_SHAPES)

\* C26: an option setter stores a declared option and fails on any other value,
\* leaving the field unchanged; before and after every call each option field
\* holds a declared option
C26_DeclaredOptionsOnly ==
    [][/\ HoldsDeclaredOptions(seq)
       /\ HoldsDeclaredOptions(seq')
       /\ outcome'.op \in {"trigger_option", "chosen_power", "chosen_focus",
                           "pulse_ramp_shape"} =>
              IF outcome'.arg \in DeclaredOptions(outcome'.op)
              THEN /\ outcome'.exc = NoExc
                   /\ SameOption(OptionField(seq', outcome'.op), outcome'.arg)
              ELSE /\ outcome'.exc = "SystemExit"
                   /\ SameOption(OptionField(seq', outcome'.op),
                                 OptionField(seq, outcome'.op))]_vars

\* an undeclared power option was refused while the pressure option selected
\* by the press setter stayed
C26_Witness ==
    /\ Exited("chosen_power")
    /\ outcome.arg = "Power [W]"
    /\ SameOption(seq.chosen_power, POW_PRESS)
    /\ Greater(seq.press, Zero)

\* the amplitude that the stored pressure press gives with the equalization
\* factor of the sequence s, before saturation
AmplOfPress(s, press) ==
    Add(Mul(P2A_a(s), Mul(Mul(press, <<1, 6>>), s.eq_factor)), P2A_b(s))

\* the voltage that belongs to the amplitude ampl on the combination of s
VoltOfAmpl(s, ampl) ==
    IF V2A_a(s) = Zero THEN Zero ELSE Div(Sub(ampl, V2A_b(s)), V2A_a(s))

\* C27: on a calibrated combination a focus setter call that returns keeps the
\* stored pressure and stores the amplitude and voltage derived from it with
\* the new equalization factor, whichever power quantity was set last; the
\* pressure changes only when that amplitude is cut off at 0 or 100
C27_FocusKeepsPressure ==
    [][(/\ outcome'.op \in {"focus_wrt_exit_plane", "focus_wrt_mid_bowl"}
        /\ outcome'.exc = NoExc
        /\ in_equip_combos(seq')) =>
              LET a == AmplOfPress(seq', seq.press)
              IN  IF Geq(a, Zero) /\ Leq(a, <<1, 2>>)
                  THEN /\ seq'.press = seq.press
                       /\ seq'.ampl = a
                       /\ seq'.volt = VoltOfAmpl(seq', a)
                  ELSE /\ seq'.ampl = IF Less(a, Zero) THEN Zero ELSE <<1, 2>>
                       /\ seq'.volt = VoltOfAmpl(seq', seq'.ampl)]_vars

\* a bowl focus was set after a voltage on a calibrated combination, and the
\* amplitude derived from the pressure lies strictly between 0 and 100
C27_Witness ==
    /\ Returned("focus_wrt_mid_bowl")
    /\ in_equip_combos(seq)
    /\ SameOption(seq.chosen_power, POW_VOLT)
    /\ Greater(seq.press, Zero)
    /\ Greater(seq.ampl, Zero)
    /\ Less(seq.ampl, <<1, 2>>)
    /\ seq.ampl = AmplOfPress(seq, seq.press)

\* C28: every transducer setter call stores the minimum focus of the new
\* transducer as exit-plane focus and its fundamental frequency as operating
\* frequency, and derives the bowl focus from that minimum: by the DF2SF
\* equation on a calibrated combination, by the exit-plane offset otherwise
C28_TransducerResets ==
    [][outcome'.op = "transducer" =>
           LET t == TranConfig(outcome'.arg)
           IN  /\ seq'.transducer = outcome'.arg
               /\ seq'.focus_wrt_exit_plane = t.min_foc
               /\ seq'.oper_freq = t.fund_freq
               /\ seq'.focus_wrt_mid_bowl =
                      IF in_equip_combos(seq')
                      THEN Add(Mul(DF2SF_a(seq'), t.min_foc), DF2SF_b(seq'))
                      ELSE Add(t.min_foc, t.exit_plane_dist)]_vars

\* the transducer was set on a calibrated combination after another focus had
\* been chosen, and the foci are back at the minimum
C28_Witness ==
    /\ outcome.op = "transducer"
    /\ in_equip_combos(seq)
    /\ seq.chosen_focus = FOC_WRT_BOWL
    /\ seq.focus_wrt_exit_plane = TranConfig(seq.transducer).min_foc
    /\ Greater(seq.press, Zero)

\* C29: the running top-level connect() has made at most 6 attempts
C29_AtMostSixAttempts == igt.attempts <= 6

\* C30: prepareSequence/startSequence run for a buffer only while the object
\* is connected and the buffer is registered in sent_seqs, and sent_seqs holds
\* only buffers uploaded since connect() was last entered
C30_StartOnlySent ==
    [][/\ igt'.sent_seqs \subseteq igt'.uploaded
       /\ outcome'.op \in {"startSequence", "prepareSequence"} =>
              /\ igt.connected
              /\ outcome'.arg \in igt.sent_seqs
              /\ outcome'.arg \in igt.uploaded]_vars

\* buffer 1 was started by wait_for_trigger's or execute_sequence's own upload
\* after a connect() that needed a retry, buffer 0 not being registered
C30_Witness ==
    /\ outcome = [op |-> "startSequence", arg |-> <<1, 0>>, exc |-> NoExc]
    /\ igt.stack = <<>>
    /\ igt.attempts = 2
    /\ igt.sent_seqs = {<<1, 0>>}
    /\ calls = 2

\* the sequences handed to the running send_sequence call
SuppliedSequences == <<seq>> \o igt.stack[Len(igt.stack)].seq2

\* C31: a send_sequence call with a sequence that validation refuses, seq1 or
\* seq2, fails at once: no connection attempt, nothing uploaded, sent_seqs and
\* the connected flag unchanged
C31_ValidatedBeforeSending ==
    [][(/\ igt.stack # <<>>
        /\ igt.stack[Len(igt.stack)].fn = "send_sequence"
        /\ \E i \in DOMAIN SuppliedSequences :
               IGT_validate_sequence(SuppliedSequences[i]) #
                   [exc |-> NoExc, error_messages |-> <<>>]) =>
              /\ outcome'.op = "validate_sequence"
              /\ outcome'.exc # NoExc
              /\ igt' = [igt EXCEPT !.stack = <<>>]]_vars

\* send_sequence was refused while connected with buffer 0 registered; seq1
\* passes validation, so the sequence refused was seq2
C31_Witness ==
    /\ outcome.op = "validate_sequence"
    /\ outcome.exc = "SystemExit"
    /\ IGT_validate_sequence(seq) = [exc |-> NoExc, error_messages |-> <<>>]
    /\ igt.connected
    /\ igt.sent_seqs = {<<0, 0>>}

\* the method that the caller started, and the innermost running method
CalledMethod == igt.stack[1].fn

RunningMethod == igt.stack[Len(igt.stack)].fn

\* the step ends the call that the caller started without an exception
CallReturns == igt.stack # <<>> /\ igt'.stack = <<>> /\ outcome'.exc = NoExc

\* C32: a call of send_sequence, execute_sequence or wait_for_trigger on an
\* object that is not connected ends; when it returns, the buffer was uploaded
\* after the reconnection and, for execute_sequence and wait_for_trigger,
\* started by the step that ends the call, so exactly once; connect() returns
\* only with the connected flag set
C32_DisconnectedCallsTerminate ==
    /\ (igt.stack # <<>>) ~> (igt.stack = <<>>)
    /\ [][/\ (CallReturns /\ CalledMethod = "send_sequence") =>
                 /\ outcome'.op = "sendSequence"
                 /\ igt'.connected
                 /\ seq.seq_num \in igt'.uploaded
          /\ (CallReturns /\ CalledMethod \in {"execute_sequence", "wait_for_trigger"}) =>
                 /\ outcome' = [op |-> "startSequence", arg |-> seq.seq_num, exc |-> NoExc]
                 /\ igt'.connected
                 /\ seq.seq_num \in igt'.uploaded
          /\ (outcome'.op = "startSequence" /\ outcome'.exc = NoExc) => igt'.stack = <<>>
          /\ (/\ igt.stack # <<>>
              /\ RunningMethod = "connect"
              /\ Len(igt'.stack) = Len(igt.stack) - 1
              /\ outcome'.exc = NoExc) => igt'.connected]_vars

\* execute_sequence or wait_for_trigger, called on the object disconnected
\* with buffer 0 registered, reconnected at the second attempt, uploaded
\* buffer 0 again and started it
C32_Witness ==
    /\ outcome = [op |-> "startSequence", arg |-> Zero, exc |-> NoExc]
    /\ igt.stack = <<>>
    /\ igt.attempts = 2
    /\ igt.uploaded = {Zero}
    /\ calls = MaxIGTCalls

\* C33: on an IGT driving system, calibrated or not, the stored amplitude lies
\* between 0 and 100 percent in every state reachable through the setters
C33_AmplitudeWithinRange ==
    manufact(seq) = IGT => Geq(seq.ampl, Zero) /\ Leq(seq.ampl, <<1, 2>>)

\* the setters that write or re-derive the power quantities
PowerWriters ==
    {"global_power", "press", "volt", "ampl", "focus_wrt_exit_plane",
     "focus_wrt_mid_bowl", "driving_sys", "transducer"}

\* two amplitudes [%] agree within floating-point tolerance (0.05 absolute)
SameAmpl(a, b) == Leq(AbsD(Sub(a, b)), <<5, -2>>)

\* amplitude, pressure and voltage of s agree under the coefficients and the
\* equalization factor of s
PowerTripleConsistent(s) ==
    /\ SameAmpl(s.ampl, AmplOfPress(s, s.press))
    /\ V2A_a(s) # Zero => SameAmpl(s.ampl, Add(Mul(V2A_a(s), s.volt), V2A_b(s)))

\* C34: on a calibrated combination, after every power, focus or equipment
\* setter call that returns, global_power included, the stored amplitude equals
\* P2A_a*(press*1e6*eq_factor) + P2A_b and V2A_a*volt + V2A_b
C34_PowerTripleConsistent ==
    [][(/\ outcome'.op \in PowerWriters
        /\ outcome'.exc = NoExc
        /\ in_equip_combos(seq')) => PowerTripleConsistent(seq')]_vars

\* C35: a zero-valued call of the power setter that the manufacturer does not
\* support changes nothing of the power state: global_power = 0 on an IGT
\* sequence keeps amplitude, pressure and voltage, and ampl = 0 on a Sonic
\* Concepts sequence keeps global_power
C35_UnsupportedZeroIsNoOp ==
    [][/\ (/\ outcome'.op = "global_power"
           /\ outcome'.arg = Zero
           /\ manufact(seq) = IGT) =>
                 /\ seq'.ampl = seq.ampl
                 /\ seq'.press = seq.press
                 /\ seq'.volt = seq.volt
       /\ (/\ outcome'.op = "ampl"
           /\ outcome'.arg = Zero
           /\ manufact(seq) = SONIC_CONCEPTS) =>
                 seq'.global_power = seq.global_power]_vars

\* the timing fields with a validated numeric setter
TimingFields ==
    {"pulse_dur", "pulse_rep_int", "pulse_ramp_dur", "pulse_train_dur",
     "pulse_train_rep_int", "pulse_train_rep_dur"}

\* C36: a timing setter called with the value that the getter of its field
\* returns leaves the field as it was
C36_WriteBackKeepsField ==
    [][\A x \in TimingFields :
           (outcome'.op = x /\ outcome'.arg = seq.timing_param[x]) =>
               seq'.timing_param[x] = seq.timing_param[x]]_vars

\* C37: in every state reachable through the setters, whatever the
\* manufacturer, pulse_dur, pulse_rep_int, pulse_train_dur,
\* pulse_train_rep_int and pulse_train_rep_dur hold strictly positive numbers
C37_TimingFieldsPositive ==
    \A x \in TimingFields \ {"pulse_ramp_dur"} :
        /\ seq.timing_param[x] # None
        /\ Greater(seq.timing_param[x], Zero)

\* the sequence passes IGT.validate_sequence with an empty message list
Accepted(s) == IGT_validate_sequence(s) = [exc |-> NoExc, error_messages |-> <<>>]

\* C38: for a sequence that IGT.validate_sequence accepts, send_sequence
\* derives 1 to 64 pulses per train, at least one pulse train repetition, a
\* pulse train delay that is not negative and a pulse delay that is not
\* negative
C38_DerivedQuantitiesWellFormed ==
    (outcome.op = "send_sequence" /\ Accepted(seq)) =>
        /\ outcome.exc = NoExc
        /\ result.pulse_train.n_pulse_train \in 1..max_n_pulses
        /\ result.n_pulse_train_rep >= 1
        /\ Geq(result.pulse_train.pulse_train_delay, Zero)
        /\ Geq(Sub(seq.timing_param.pulse_rep_int, seq.timing_param.pulse_dur), Zero)
        /\ Geq(result.pulse.delay, Zero)

\* a train of 64 pulses, run once, was defined for an accepted sequence
C38_Witness ==
    /\ outcome = [op |-> "send_sequence", arg |-> None, exc |-> NoExc]
    /\ Accepted(seq)
    /\ result.pulse_train.n_pulse_train = max_n_pulses
    /\ result.n_pulse_train_rep = 1

\* C39: for a validated sequence the pulse that _define_pulse defines has a
\* duration and a delay that add up to the pulse repetition interval of the
\* sequence
C39_PulseFillsRepetitionInterval ==
    (outcome.op = "send_sequence" /\ outcome.exc = NoExc) =>
        Close(Add(result.pulse.duration, result.pulse.delay),
              seq.timing_param.pulse_rep_int)

=============================================================================
